---- MODULE Spec2Model ----
(***************************************************************************)
(* A model of the snarkOS peer book (network/src/peers/peer_book.rs).      *)
(*                                                                         *)
(* The PeerBook is a record of its three collections.  Every method of    *)
(* the Rust `impl PeerBook` that takes `&mut self` is an operator from a   *)
(* book (and the call's arguments) to the book after the call and the     *)
(* value the call returns; an action applies one method to the book.      *)
(***************************************************************************)
EXTENDS Integers, FiniteSets, Sequences, TLC

VARIABLES
    peer_book,    \* the PeerBook: connecting_peers, connected_peers, disconnected_peers
    prev,         \* the PeerBook as it was when the last call was made
    last,         \* the last call: method, arguments and returned value
    outbound,     \* the messages the last call handed to the outbound handler, in order
    sync_session, \* per peer, what has been announced, requested and delivered
                  \* in its block sync (history, kept for the properties)
    tasks         \* the calls that tasks are making concurrently, each with its
                  \* position in the method

\* The variables the methods of the PeerBook do not touch.
net == <<outbound, sync_session, tasks>>

vars == <<peer_book, prev, last, outbound, sync_session, tasks>>

(***************************************************************************)
(* Bounds.                                                                 *)
(***************************************************************************)
\* Socket addresses are 1..NumAddresses.
NumAddresses == 2
\* connected_count and disconnected_count are unbounded in the program; a call
\* that would take one of them above MaxCount is not taken.
MaxCount == 2

\* Timestamps (chrono::Utc::now(), Instant::now()) are 1..MaxTime.
MaxTime == 2

\* The failures counter is unbounded here; a Pong that would take it above
\* MaxFailures is not delivered.
MaxFailures == 2

\* The peers that connect in the specifications of Pings and of block syncs,
\* whose quality blocks take many values, are 1..NumQualityPeers.
NumQualityPeers == 1

\* The counts of small block syncs are 0..MaxSyncCount, and a peer is sent at
\* most MaxSyncCount + 1 sync blocks between two announcements.
MaxSyncCount == 3

\* The tasks that call a method of the PeerBook concurrently.
NumTasks == 4

\* The tasks that call sending_ping or received_pong concurrently.
NumPingTasks == 2

\* The tasks that handle a received block concurrently.
NumHandlers == 2

\* The distinct serialized blocks a peer may send.
NumBlocks == 2

\* Consensus::max_block_size(): the greatest length of a block, in bytes.
max_block_size == 2

\* The greatest height of the local chain, and the most hashes of a Sync message.
MaxHeight == 66

MaxHashes == 130

\* crate::MAX_BLOCK_SYNC_COUNT: the most block hashes of one Sync reply and of
\* one GetBlocks request.
MAX_BLOCK_SYNC_COUNT == 64

\* remaining_sync_blocks is an AtomicU16: its values are taken modulo 2^16.
U16 == 65536

Address == 1..NumAddresses

Time == 1..MaxTime

\* Option<SocketAddr>::None
None == 0

(***************************************************************************)
(* PeerInfo (peers/peer_info.rs is not among the sources: the record and  *)
(* its two transitions follow the data model of the specification, 3.).   *)
(***************************************************************************)
PeerStatus == {"NeverConnected", "Connecting", "Connected", "Disconnected"}

\* PeerQuality::default(): the quality block a PeerInfo shares by Arc.  The
\* timestamps are Options (None, or a time in 1..MaxTime); the counters are 0.
PeerQuality_default ==
    [last_seen             |-> None,
     expecting_pong        |-> FALSE,
     last_ping_sent        |-> None,
     rtt_ms                |-> 0,
     failures              |-> 0,
     remaining_sync_blocks |-> 0]

\* PeerInfo::new(address): a peer that has never connected, no history, with a
\* quality block of its own.
PeerInfo_new(address) ==
    [address            |-> address,
     status             |-> "NeverConnected",
     connected_count    |-> 0,
     disconnected_count |-> 0,
     quality            |-> PeerQuality_default]

\* PeerInfo::set_connected(&mut self) -> Result: the transition to Connected,
\* counted in connected_count; it is refused for a peer that is Connected.
PeerInfo_set_connected(peer_info) ==
    IF peer_info.status = "Connected"
    THEN [ok |-> FALSE, info |-> peer_info]
    ELSE [ok   |-> TRUE,
          info |-> [peer_info EXCEPT !.status = "Connected",
                                     !.connected_count = @ + 1]]

\* PeerInfo::set_disconnected(&mut self) -> Result: the transition to
\* Disconnected, counted in disconnected_count; only a Connected peer takes it.
PeerInfo_set_disconnected(peer_info) ==
    IF peer_info.status # "Connected"
    THEN [ok |-> FALSE, info |-> peer_info]
    ELSE [ok   |-> TRUE,
          info |-> [peer_info EXCEPT !.status = "Disconnected",
                                     !.disconnected_count = @ + 1]]

(***************************************************************************)
(* HashMap<SocketAddr, PeerInfo> as a function on the set of its keys.     *)
(***************************************************************************)
\* HashMap::remove(&key): the map without the key.
MapRemove(map, key) == [k \in (DOMAIN map) \ {key} |-> map[k]]

\* HashMap::insert(key, value): the key is bound to value, replacing a prior entry.
MapInsert(map, key, value) ==
    [k \in (DOMAIN map) \cup {key} |-> IF k = key THEN value ELSE map[k]]

\* PeerBook::default()
PeerBook_default ==
    [connecting_peers   |-> {},
     connected_peers    |-> << >>,
     disconnected_peers |-> << >>]

(***************************************************************************)
(* Read accessors.                                                         *)
(***************************************************************************)
is_connecting(self, address) == address \in self.connecting_peers

is_connected(self, address) == address \in DOMAIN self.connected_peers

is_disconnected(self, address) == address \in DOMAIN self.disconnected_peers

number_of_connecting_peers(self) == Cardinality(self.connecting_peers) % 65536

number_of_connected_peers(self) == Cardinality(DOMAIN self.connected_peers) % 65536

number_of_disconnected_peers(self) == Cardinality(DOMAIN self.disconnected_peers) % 65536

(***************************************************************************)
(* The methods that change the book.  Each yields the book after the call *)
(* and, for a method returning Result<(), NetworkError>, the result.       *)
(***************************************************************************)
\* A faulty set_connecting that moves the address: it also takes the address
\* out of the disconnected map.
set_connecting_moving(self, address) ==
    IF is_connected(self, address)
    THEN [book |-> self, result |-> "PeerAlreadyConnected"]
    ELSE [book   |-> [self EXCEPT !.connecting_peers = @ \cup {address},
                                  !.disconnected_peers = MapRemove(@, address)],
          result |-> "Ok"]

\* A faulty set_connecting that inserts before it checks is_connected.
set_connecting_unchecked(self, address) ==
    [book   |-> [self EXCEPT !.connecting_peers = @ \cup {address}],
     result |-> IF is_connected(self, address) THEN "PeerAlreadyConnected" ELSE "Ok"]

\* PeerBook::set_connecting(&mut self, address)
set_connecting(self, address) ==
    IF is_connected(self, address)
    THEN [book |-> self, result |-> "PeerAlreadyConnected"]
    ELSE [book   |-> [self EXCEPT !.connecting_peers = @ \cup {address}],
          result |-> "Ok"]

\* A faulty set_connected that reads the disconnected entry without removing it.
set_connected_keeping_disconnected(self, address, listener_opt) ==
    LET listener  == IF listener_opt # None THEN listener_opt ELSE address
        peer_info == IF listener \in DOMAIN self.disconnected_peers
                     THEN self.disconnected_peers[listener]
                     ELSE PeerInfo_new(listener)
        removed   == [self EXCEPT !.connecting_peers = @ \ {address}]
        updated   == PeerInfo_set_connected(peer_info)
    IN  IF ~updated.ok
        THEN [book |-> removed, result |-> "PeerAlreadyConnected"]
        ELSE [book   |-> [removed EXCEPT
                            !.connected_peers = MapInsert(@, listener, updated.info)],
              result |-> "Ok"]

\* A faulty set_connected that leaves the connecting set alone.
set_connected_keeping_connecting(self, address, listener_opt) ==
    LET listener  == IF listener_opt # None THEN listener_opt ELSE address
        peer_info == IF listener \in DOMAIN self.disconnected_peers
                     THEN self.disconnected_peers[listener]
                     ELSE PeerInfo_new(listener)
        removed   == [self EXCEPT !.disconnected_peers = MapRemove(@, listener)]
        updated   == PeerInfo_set_connected(peer_info)
    IN  IF ~updated.ok
        THEN [book |-> removed, result |-> "PeerAlreadyConnected"]
        ELSE [book   |-> [removed EXCEPT
                            !.connected_peers = MapInsert(@, listener, updated.info)],
              result |-> "Ok"]

\* PeerBook::set_connected(&mut self, address, listener: Option<SocketAddr>)
set_connected(self, address, listener_opt) ==
    LET listener  == IF listener_opt # None THEN listener_opt ELSE address
        \* self.disconnected_peers.remove(&listener), or PeerInfo::new(listener)
        peer_info == IF listener \in DOMAIN self.disconnected_peers
                     THEN self.disconnected_peers[listener]
                     ELSE PeerInfo_new(listener)
        removed   == [self EXCEPT
                        !.disconnected_peers = MapRemove(@, listener),
                        \* self.connecting_peers.remove(&address)
                        !.connecting_peers   = @ \ {address}]
        updated   == PeerInfo_set_connected(peer_info)
    IN  IF ~updated.ok
        \* peer_info.set_connected()? returns early with the error
        THEN [book |-> removed, result |-> "PeerAlreadyConnected"]
        ELSE [book   |-> [removed EXCEPT
                            !.connected_peers = MapInsert(@, listener, updated.info)],
              result |-> "Ok"]

\* A faulty add_peer that does not look at the disconnected map and inserts
\* with HashMap::insert: it overwrites the PeerInfo of a disconnected peer.
add_peer_overwriting(self, address) ==
    IF is_connected(self, address) \/ is_connecting(self, address)
    THEN self
    ELSE [self EXCEPT !.disconnected_peers =
                          MapInsert(@, address, PeerInfo_new(address))]

\* PeerBook::add_peer(&mut self, address)
add_peer(self, address) ==
    IF is_connected(self, address) \/ is_disconnected(self, address)
           \/ is_connecting(self, address)
    THEN self
    \* entry(address).or_insert_with(|| PeerInfo::new(address))
    ELSE [self EXCEPT !.disconnected_peers =
                          IF address \in DOMAIN @ THEN @
                          ELSE MapInsert(@, address, PeerInfo_new(address))]

\* A faulty set_disconnected that drops the PeerInfo of a connected peer
\* instead of inserting it into the disconnected map.
set_disconnected_dropping_info(self, address) ==
    IF address \in self.connecting_peers
    THEN [book   |-> [self EXCEPT !.connecting_peers = @ \ {address}],
          result |-> "Ok"]
    ELSE IF address \in DOMAIN self.connected_peers
    THEN LET removed == [self EXCEPT !.connected_peers = MapRemove(@, address)]
             updated == PeerInfo_set_disconnected(self.connected_peers[address])
         IN  IF ~updated.ok
             THEN [book |-> removed, result |-> "PeerAlreadyDisconnected"]
             ELSE [book |-> removed, result |-> "Ok"]
    ELSE IF ~(address \in DOMAIN self.disconnected_peers)
    THEN [book |-> add_peer(self, address), result |-> "Ok"]
    ELSE [book |-> self, result |-> "Ok"]

\* A faulty set_disconnected that moves the PeerInfo of a connected peer
\* without calling peer_info.set_disconnected().
set_disconnected_uncounted(self, address) ==
    IF address \in self.connecting_peers
    THEN [book   |-> [self EXCEPT !.connecting_peers = @ \ {address}],
          result |-> "Ok"]
    ELSE IF address \in DOMAIN self.connected_peers
    THEN [book   |-> [self EXCEPT
                        !.connected_peers = MapRemove(@, address),
                        !.disconnected_peers =
                            MapInsert(@, address, self.connected_peers[address])],
          result |-> "Ok"]
    ELSE IF ~(address \in DOMAIN self.disconnected_peers)
    THEN [book |-> add_peer(self, address), result |-> "Ok"]
    ELSE [book |-> self, result |-> "Ok"]

\* A faulty set_disconnected that moves a connected peer's PeerInfo to the
\* disconnected map without the PeerInfo transition.
set_disconnected_keeping_status(self, address) ==
    IF address \in self.connecting_peers
    THEN [book   |-> [self EXCEPT !.connecting_peers = @ \ {address}],
          result |-> "Ok"]
    ELSE IF address \in DOMAIN self.connected_peers
    THEN [book   |-> [self EXCEPT
                         !.connected_peers = MapRemove(@, address),
                         !.disconnected_peers =
                             MapInsert(@, address, self.connected_peers[address])],
          result |-> "Ok"]
    ELSE IF ~(address \in DOMAIN self.disconnected_peers)
    THEN [book |-> add_peer(self, address), result |-> "Ok"]
    ELSE [book |-> self, result |-> "Ok"]

\* PeerBook::set_disconnected(&mut self, address)
set_disconnected(self, address) ==
    IF address \in self.connecting_peers
    \* Case 1: a connecting peer
    THEN [book   |-> [self EXCEPT !.connecting_peers = @ \ {address}],
          result |-> "Ok"]
    ELSE IF address \in DOMAIN self.connected_peers
    \* Case 2: a connected peer
    THEN LET removed == [self EXCEPT !.connected_peers = MapRemove(@, address)]
             updated == PeerInfo_set_disconnected(self.connected_peers[address])
         IN  IF ~updated.ok
             THEN [book |-> removed, result |-> "PeerAlreadyDisconnected"]
             ELSE [book   |-> [removed EXCEPT !.disconnected_peers =
                                  MapInsert(@, address, updated.info)],
                   result |-> "Ok"]
    \* Case 3: not a connected peer
    ELSE IF ~(address \in DOMAIN self.disconnected_peers)
    THEN [book |-> add_peer(self, address), result |-> "Ok"]
    ELSE [book |-> self, result |-> "Ok"]

\* A faulty remove_peer that forgets the connecting set.
remove_peer_keeping_connecting(self, address) ==
    [connecting_peers   |-> self.connecting_peers,
     connected_peers    |-> MapRemove(self.connected_peers, address),
     disconnected_peers |-> MapRemove(self.disconnected_peers, address)]

\* PeerBook::remove_peer(&mut self, address)
remove_peer(self, address) ==
    [connecting_peers   |-> self.connecting_peers \ {address},
     connected_peers    |-> MapRemove(self.connected_peers, address),
     disconnected_peers |-> MapRemove(self.disconnected_peers, address)]

(***************************************************************************)
(* The quality block.  The methods below take &self: they reach the block *)
(* of a connected peer through peer_quality and write its fields in place, *)
(* which here is an update of the PeerInfo of that peer.                   *)
(***************************************************************************)
\* PeerBook::peer_quality(&self, addr) is Some for a connected peer only.
has_peer_quality(self, addr) == addr \in DOMAIN self.connected_peers

\* PeerBook::peer_quality(&self, addr), for a connected peer.
peer_quality(self, addr) == self.connected_peers[addr].quality

\* The book with the quality block of a connected peer replaced.
with_quality(self, addr, quality) ==
    [self EXCEPT !.connected_peers[addr].quality = quality]

\* A faulty last_seen whose comparison is reversed: it yields a peer seen least
\* recently.
last_seen_reversed(self) ==
    IF DOMAIN self.connected_peers = {}
    THEN {None}
    ELSE {a \in DOMAIN self.connected_peers :
            \A b \in DOMAIN self.connected_peers :
                self.connected_peers[a].quality.last_seen
                    <= self.connected_peers[b].quality.last_seen}

\* PeerBook::last_seen(&self) -> Option<SocketAddr>: the values the call can
\* return.  max_by compares the Option timestamps (None is below every Some)
\* and, among equal maxima, yields the one the HashMap iterates last: any of them.
last_seen(self) ==
    IF DOMAIN self.connected_peers = {}
    THEN {None}
    ELSE {a \in DOMAIN self.connected_peers :
            \A b \in DOMAIN self.connected_peers :
                self.connected_peers[b].quality.last_seen
                    <= self.connected_peers[a].quality.last_seen}

\* PeerBook::update_last_seen(&self, addr), called at time now.
update_last_seen(self, addr, now) ==
    IF has_peer_quality(self, addr)
    THEN with_quality(self, addr, [peer_quality(self, addr) EXCEPT !.last_seen = now])
    ELSE self

\* PeerBook::sending_ping(&self, target), called at time now.
sending_ping(self, target, now) ==
    IF has_peer_quality(self, target)
    THEN with_quality(self, target,
             [peer_quality(self, target) EXCEPT !.last_ping_sent = now,
                                                !.expecting_pong = TRUE])
    ELSE self

\* A faulty received_pong that records the round trip and leaves the
\* expecting_pong flag set.
received_pong_keeping_flag(self, source, now) ==
    IF has_peer_quality(self, source)
    THEN LET quality == peer_quality(self, source)
         IN  IF quality.expecting_pong
             THEN IF quality.last_ping_sent = None
                  THEN [book |-> self, result |-> "panic"]
                  ELSE [book   |-> with_quality(self, source,
                                      [quality EXCEPT
                                          !.rtt_ms = now - quality.last_ping_sent]),
                        result |-> "Ok"]
             ELSE [book   |-> with_quality(self, source,
                                 [quality EXCEPT !.failures = @ + 1]),
                   result |-> "Ok"]
    ELSE [book |-> self, result |-> "Ok"]

\* PeerBook::received_pong(&self, source), called at time now (an Instant not
\* before last_ping_sent).  The result is Ok, or panic when last_ping_sent is
\* unwrapped while None.
received_pong(self, source, now) ==
    IF has_peer_quality(self, source)
    THEN LET quality == peer_quality(self, source)
         IN  IF quality.expecting_pong
             THEN IF quality.last_ping_sent = None
                  THEN [book |-> self, result |-> "panic"]
                  \* rtt = ping_sent.elapsed(); rtt_ms, then expecting_pong, are stored
                  ELSE [book   |-> with_quality(self, source,
                                      [quality EXCEPT
                                          !.rtt_ms = now - quality.last_ping_sent,
                                          !.expecting_pong = FALSE]),
                        result |-> "Ok"]
             \* failures.fetch_add(1)
             ELSE [book   |-> with_quality(self, source,
                                 [quality EXCEPT !.failures = @ + 1]),
                   result |-> "Ok"]
    ELSE [book |-> self, result |-> "Ok"]

\* PeerBook::expecting_sync_blocks(&self, addr, count: usize): stores count as u16.
expecting_sync_blocks(self, addr, count) ==
    IF has_peer_quality(self, addr)
    THEN with_quality(self, addr,
             [peer_quality(self, addr) EXCEPT !.remaining_sync_blocks = count % U16])
    ELSE self

\* A faulty got_sync_block that reports an unfinished sync for a peer that is
\* not connected.
got_sync_block_unfinished(self, addr) ==
    IF has_peer_quality(self, addr)
    THEN LET quality == peer_quality(self, addr)
         IN  [book   |-> with_quality(self, addr,
                            [quality EXCEPT !.remaining_sync_blocks = (@ - 1) % U16]),
              result |-> (quality.remaining_sync_blocks = 1)]
    ELSE [book |-> self, result |-> FALSE]

\* PeerBook::got_sync_block(&self, addr) -> bool: fetch_sub(1) wraps around and
\* yields the value before the subtraction.
got_sync_block(self, addr) ==
    IF has_peer_quality(self, addr)
    THEN LET quality == peer_quality(self, addr)
         IN  [book   |-> with_quality(self, addr,
                            [quality EXCEPT !.remaining_sync_blocks = (@ - 1) % U16]),
              result |-> (quality.remaining_sync_blocks = 1)]
    ELSE [book |-> self, result |-> TRUE]

\* PeerBook::is_syncing_blocks(&self, addr) -> bool
is_syncing_blocks(self, addr) ==
    IF has_peer_quality(self, addr)
    THEN peer_quality(self, addr).remaining_sync_blocks # 0
    ELSE FALSE

(***************************************************************************)
(* The block handlers of Consensus (network/src/consensus/blocks.rs).  A   *)
(* handler is an operator from its arguments to the sequence of messages   *)
(* it hands to the outbound handler, in the order of its send_request      *)
(* calls, and to its result.                                               *)
(***************************************************************************)
\* Message::new(Direction::Outbound(remote_address), Payload::<payload>(data))
Message(remote_address, payload, data) ==
    [to |-> remote_address, payload |-> payload, data |-> data]

\* The orders in which an iteration over a HashMap may visit a set of keys.
Orders(keys) ==
    {order \in [1..Cardinality(keys) -> keys] :
        \A i, j \in 1..Cardinality(keys) : i # j => order[i] # order[j]}

\* A faulty propagate_block that does not leave out the block's sender.
propagate_block_to_sender(block_bytes, block_miner, connected_peers) ==
    {[i \in 1..Len(order) |-> Message(order[i], "Block", block_bytes)] :
        order \in Orders(DOMAIN connected_peers)}

\* Consensus::propagate_block(&self, block_bytes, block_miner, connected_peers):
\* the sequences of messages it may send, one for each order of the keys.
propagate_block(block_bytes, block_miner, connected_peers) ==
    {SelectSeq([i \in 1..Len(order) |-> Message(order[i], "Block", block_bytes)],
               LAMBDA message : message.to # block_miner) :
        order \in Orders(DOMAIN connected_peers)}

\* A block as a peer sends it: its bytes and their length, whether
\* Block::deserialize succeeds on it, and whether consensus receive_block
\* accepts it into the storage.
Blocks ==
    [bytes : 1..NumBlocks,
     size : (max_block_size - 1)..(max_block_size + 1),
     well_formed : BOOLEAN, accepted : BOOLEAN]

\* An outcome of received_block: the messages sent, the result, and whether
\* Block::deserialize and consensus receive_block, which alone changes the
\* storage and the memory pool, have been called.
Outcome(messages, result, deserialized, verified) ==
    [messages |-> messages, result |-> result,
     deserialized |-> deserialized, verified |-> verified]

\* Consensus::is_syncing_blocks(&self), which is not among the sources: by the
\* specification, some peer's remaining_sync_blocks is not 0.
Consensus_is_syncing_blocks(self) ==
    \E addr \in Address : is_syncing_blocks(self, addr)

\* Option<HashMap<SocketAddr, PeerInfo>>: Some(map) and None.
Some(value) == [is_some |-> TRUE, value |-> value]

Option_None == [is_some |-> FALSE]

\* A faulty received_block that propagates a block of a SyncBlock message too.
received_block_propagating_sync(self, remote_address, block, connected_peers) ==
    IF block.size > max_block_size
    THEN {Outcome(<< >>, "BlockTooLarge", FALSE, FALSE)}
    ELSE IF ~block.well_formed THEN {Outcome(<< >>, "Err", TRUE, FALSE)}
    ELSE IF block.accepted /\ ~Consensus_is_syncing_blocks(self)
         THEN {Outcome(messages, "Ok", TRUE, TRUE) :
                  messages \in propagate_block(block.bytes, remote_address,
                                   IF connected_peers.is_some
                                   THEN connected_peers.value
                                   ELSE self.connected_peers)}
         ELSE {Outcome(<< >>, "Ok", TRUE, TRUE)}

\* A faulty received_block that propagates while the node is syncing.
received_block_while_syncing(self, remote_address, block, connected_peers) ==
    IF block.size > max_block_size
    THEN {Outcome(<< >>, "BlockTooLarge", FALSE, FALSE)}
    ELSE IF ~block.well_formed THEN {Outcome(<< >>, "Err", TRUE, FALSE)}
    ELSE IF connected_peers.is_some /\ block.accepted
         THEN {Outcome(messages, "Ok", TRUE, TRUE) :
                  messages \in propagate_block(block.bytes, remote_address,
                                               connected_peers.value)}
         ELSE {Outcome(<< >>, "Ok", TRUE, TRUE)}

\* A faulty received_block that returns the error of consensus receive_block.
received_block_returning_error(self, remote_address, block, connected_peers) ==
    IF block.size > max_block_size
    THEN {Outcome(<< >>, "BlockTooLarge", FALSE, FALSE)}
    ELSE IF ~block.well_formed THEN {Outcome(<< >>, "Err", TRUE, FALSE)}
    ELSE IF ~block.accepted THEN {Outcome(<< >>, "Err", TRUE, TRUE)}
    ELSE IF connected_peers.is_some /\ ~Consensus_is_syncing_blocks(self)
         THEN {Outcome(messages, "Ok", TRUE, TRUE) :
                  messages \in propagate_block(block.bytes, remote_address,
                                               connected_peers.value)}
         ELSE {Outcome(<< >>, "Ok", TRUE, TRUE)}

\* A faulty received_block that also turns away a block of max_block_size bytes.
received_block_size_inclusive(self, remote_address, block, connected_peers) ==
    IF block.size >= max_block_size
    THEN {Outcome(<< >>, "BlockTooLarge", FALSE, FALSE)}
    ELSE IF ~block.well_formed THEN {Outcome(<< >>, "Err", TRUE, FALSE)}
    ELSE IF connected_peers.is_some
            /\ block.accepted /\ ~Consensus_is_syncing_blocks(self)
         THEN {Outcome(messages, "Ok", TRUE, TRUE) :
                  messages \in propagate_block(block.bytes, remote_address,
                                               connected_peers.value)}
         ELSE {Outcome(<< >>, "Ok", TRUE, TRUE)}

\* Consensus::received_block(&self, remote_address, block, connected_peers),
\* with self the peer book of the node: the outcomes it may have.
received_block(self, remote_address, block, connected_peers) ==
    IF block.size > max_block_size
    THEN {Outcome(<< >>, "BlockTooLarge", FALSE, FALSE)}
    ELSE IF ~block.well_formed THEN {Outcome(<< >>, "Err", TRUE, FALSE)}
    ELSE IF connected_peers.is_some
            /\ block.accepted /\ ~Consensus_is_syncing_blocks(self)
         THEN {Outcome(messages, "Ok", TRUE, TRUE) :
                  messages \in propagate_block(block.bytes, remote_address,
                                               connected_peers.value)}
         ELSE {Outcome(<< >>, "Ok", TRUE, TRUE)}

\* The block header hashes of a Sync message that announces n blocks: the hash
\* of the block at height i is i.
BlockHashes(n) == [i \in 1..n |-> i]

\* slice::chunks(size): the consecutive chunks of size elements, the last one
\* shorter when size does not divide the length.
chunks(slice, size) ==
    [i \in 1..((Len(slice) + size - 1) \div size) |->
        SubSeq(slice, (i - 1) * size + 1,
               IF i * size < Len(slice) THEN i * size ELSE Len(slice))]

\* A faulty received_sync that asks for all the hashes in one GetBlocks.
received_sync_one_request(remote_address, block_hashes) ==
    IF block_hashes # << >>
    THEN << Message(remote_address, "GetBlocks", block_hashes) >>
    ELSE << >>

\* Consensus::received_sync(&self, remote_address, block_hashes): one GetBlocks
\* to the sender for each batch of MAX_BLOCK_SYNC_COUNT hashes.
received_sync(remote_address, block_hashes) ==
    IF block_hashes # << >>
    THEN LET batches == chunks(block_hashes, MAX_BLOCK_SYNC_COUNT)
         IN  [i \in 1..Len(batches) |->
                 Message(remote_address, "GetBlocks", batches[i])]
    ELSE << >>

\* get_block_number(hash) of a hash that has no block number.
NoHeight == -1

\* The storage as received_get_sync reads it: the height of the canonical
\* chain, whether get_latest_shared_hash succeeds, the block number of the
\* latest shared hash (NoHeight when get_block_number fails), and whether
\* get_block_hash succeeds.  The latest shared hash is a block of the chain.
Storages ==
    {storage \in [current_height : 0..MaxHeight,
                  shared_found : BOOLEAN,
                  shared_height : {NoHeight} \cup (0..MaxHeight),
                  hashes_found : BOOLEAN] :
        storage.shared_height <= storage.current_height}

\* storage.get_block_hash(block_num): the hash of the block of the canonical
\* chain at a height is written as the height.
get_block_hash(storage, block_num) == block_num

\* A faulty received_get_sync that answers with an empty Sync when
\* get_block_hash fails.
received_get_sync_answering_failure(storage, remote_address) ==
    IF ~storage.shared_found THEN [messages |-> << >>, result |-> "Err"]
    ELSE LET height == storage.shared_height
             current_height == storage.current_height
             max_height ==
                 IF current_height > height + MAX_BLOCK_SYNC_COUNT
                 THEN height + MAX_BLOCK_SYNC_COUNT
                 ELSE current_height
         IN  IF height # NoHeight /\ height < current_height
             THEN IF storage.hashes_found
                  THEN [messages |->
                           << Message(remote_address, "Sync",
                                  [i \in 1..(max_height - height) |->
                                      get_block_hash(storage, height + i)]) >>,
                        result |-> "Ok"]
                  ELSE [messages |->
                           << Message(remote_address, "Sync", << >>) >>,
                        result |-> "Err"]
             ELSE [messages |-> << Message(remote_address, "Sync", << >>) >>,
                   result |-> "Ok"]

\* A faulty received_get_sync that sends every hash above the shared block.
received_get_sync_uncapped(storage, remote_address) ==
    IF ~storage.shared_found THEN [messages |-> << >>, result |-> "Err"]
    ELSE LET height == storage.shared_height
             current_height == storage.current_height
         IN  IF height # NoHeight /\ height < current_height
             THEN IF storage.hashes_found
                  THEN [messages |->
                           << Message(remote_address, "Sync",
                                  [i \in 1..(current_height - height) |->
                                      get_block_hash(storage, height + i)]) >>,
                        result |-> "Ok"]
                  ELSE [messages |-> << >>, result |-> "Err"]
             ELSE [messages |-> << Message(remote_address, "Sync", << >>) >>,
                   result |-> "Ok"]

\* Consensus::received_get_sync(&self, remote_address, block_locator_hashes),
\* with the storage's answers for the block locator hashes.
received_get_sync(storage, remote_address) ==
    IF ~storage.shared_found THEN [messages |-> << >>, result |-> "Err"]
    ELSE LET height == storage.shared_height
             current_height == storage.current_height
             max_height ==
                 IF current_height > height + MAX_BLOCK_SYNC_COUNT
                 THEN height + MAX_BLOCK_SYNC_COUNT
                 ELSE current_height
         IN  IF height # NoHeight /\ height < current_height
             THEN IF storage.hashes_found
                  THEN [messages |->
                           << Message(remote_address, "Sync",
                                  [i \in 1..(max_height - height) |->
                                      get_block_hash(storage, height + i)]) >>,
                        result |-> "Ok"]
                  ELSE [messages |-> << >>, result |-> "Err"]
             ELSE [messages |-> << Message(remote_address, "Sync", << >>) >>,
                   result |-> "Ok"]

\* The storage as received_sync and received_get_blocks meet it: the canonical
\* chain up to a height, each block stored under its hash.
Chains == [current_height : 0..MaxSyncCount]

\* storage.block_hash_exists(hash)
block_hash_exists(storage, hash) == hash \in 0..storage.current_height

\* The block that storage.get_block(hash) loads for a stored hash.
get_block(storage, hash) == [header_hash |-> hash, height |-> hash]

\* block.serialize() and Block::deserialize(bytes)
Block_serialize(block) == << block.header_hash, block.height >>

Block_deserialize(bytes) == [header_hash |-> bytes[1], height |-> bytes[2]]

\* The lists of block header hashes a peer may send, of stored blocks and of
\* blocks the storage does not have.
HashLists ==
    UNION {[1..k -> 1..(MaxSyncCount + 1)] : k \in 0..MaxSyncCount}

\* The hashes at the front of a list that storage.get_block loads.
LoadablePrefix(storage, header_hashes) ==
    CHOOSE k \in 0..Len(header_hashes) :
        /\ \A i \in 1..k : block_hash_exists(storage, header_hashes[i])
        /\ k = Len(header_hashes)
              \/ ~block_hash_exists(storage, header_hashes[k + 1])

\* A faulty received_get_blocks that passes over a hash it cannot load and
\* goes on with the next.
received_get_blocks_skipping(storage, remote_address, header_hashes) ==
    LET loadable == SelectSeq(header_hashes,
                        LAMBDA hash : block_hash_exists(storage, hash))
    IN  [messages |->
            [i \in 1..Len(loadable) |->
                Message(remote_address, "SyncBlock",
                    Block_serialize(get_block(storage, loadable[i])))],
         result |-> IF Len(loadable) = Len(header_hashes) THEN "Ok" ELSE "Err"]

\* A faulty received_get_blocks that replies with Block messages.
received_get_blocks_as_block(storage, remote_address, header_hashes) ==
    LET loaded == LoadablePrefix(storage, header_hashes)
    IN  [messages |->
            [i \in 1..loaded |->
                Message(remote_address, "Block",
                    Block_serialize(get_block(storage, header_hashes[i])))],
         result |-> IF loaded = Len(header_hashes) THEN "Ok" ELSE "Err"]

\* Consensus::received_get_blocks(&self, remote_address, header_hashes): a
\* SyncBlock for each hash in turn, until storage.get_block fails.
received_get_blocks(storage, remote_address, header_hashes) ==
    LET loaded == LoadablePrefix(storage, header_hashes)
    IN  [messages |->
            [i \in 1..loaded |->
                Message(remote_address, "SyncBlock",
                    Block_serialize(get_block(storage, header_hashes[i])))],
         result |-> IF loaded = Len(header_hashes) THEN "Ok" ELSE "Err"]

(***************************************************************************)
(* The RPC endpoints of RpcImpl (rpc/src/rpc_impl.rs).                     *)
(***************************************************************************)
\* self.consensus_layer(): the consensus layer of the node, a miner or not, or
\* none.
ConsensusLayers == {Option_None} \cup {Some([is_miner |-> m]) : m \in BOOLEAN}

\* RpcImpl::get_node_info(&self): Ok(NodeInfo) or the error of
\* consensus_layer().
get_node_info(consensus_layer) ==
    LET is_syncing == FALSE
    IN  IF consensus_layer.is_some
        THEN [ok |-> TRUE, is_miner |-> consensus_layer.value.is_miner,
              is_syncing |-> is_syncing]
        ELSE [ok |-> FALSE]

\* A raw transaction as send_raw_transaction meets it: whether hex::decode,
\* Tx::read and transaction_id succeed on it, what verify_transaction returns,
\* whether storage.transaction_conflicts holds of it, and what the insert into
\* the memory pool returns.
Transactions ==
    [readable : BOOLEAN, verify : {"Err", "false", "true"},
     conflicts : BOOLEAN, insert : {"Err", "None", "Some"}]

\* RpcImpl::send_raw_transaction(&self, transaction_bytes): the result, whether
\* the memory pool has inserted the transaction, and the messages sent.
send_raw_transaction(transaction) ==
    IF ~transaction.readable
    THEN [result |-> "Err", inserted |-> FALSE, messages |-> << >>]
    ELSE IF transaction.verify = "Err"
    THEN [result |-> "Err", inserted |-> FALSE, messages |-> << >>]
    ELSE IF transaction.verify = "false"
    THEN [result |-> "Transaction did not verify", inserted |-> FALSE,
          messages |-> << >>]
    ELSE IF ~transaction.conflicts
    THEN [result |-> "transaction_hex_id",
          inserted |-> (transaction.insert = "Some"),
          messages |-> << >>]
    ELSE [result |-> "Transaction contains spent records", inserted |-> FALSE,
          messages |-> << >>]

(***************************************************************************)
(* The state machine: a caller holding the book applies one method.        *)
(***************************************************************************)
\* Every counter of the book is within the model's bound.
WithinBounds(book) ==
    /\ \A a \in DOMAIN book.connected_peers :
          /\ book.connected_peers[a].connected_count <= MaxCount
          /\ book.connected_peers[a].disconnected_count <= MaxCount
    /\ \A a \in DOMAIN book.disconnected_peers :
          /\ book.disconnected_peers[a].connected_count <= MaxCount
          /\ book.disconnected_peers[a].disconnected_count <= MaxCount

Call(op, address, listener, result) ==
    [op |-> op, address |-> address, listener |-> listener, result |-> result]

\* The history of a peer's block sync since the peer connected: whether
\* expecting_sync_blocks has been called, the count of its latest call, the
\* got_sync_block calls since that call, and the block hashes requested from the
\* peer with GetBlocks that the peer has not delivered yet.
NoSession == [announced |-> FALSE, expected |-> 0, got |-> 0, owed |-> 0]

\* A task: "idle" with no call to make, "called" at the start of its call,
\* "found" with the quality block of the peer in hand, "loaded" with the value
\* of the counter in hand, "done" with the result of its call.
Task == 1..NumTasks

IdleTask == [pc |-> "idle", held |-> 0, result |-> FALSE]

\* No calls are being made; count calls are being made for a peer.
NoTasks == [addr |-> None, count |-> 0, calls |-> [t \in Task |-> IdleTask]]

Init ==
    /\ peer_book = PeerBook_default
    /\ prev = PeerBook_default
    /\ last = Call("default", None, None, "Ok")
    /\ outbound = << >>
    /\ sync_session = [a \in Address |-> NoSession]
    /\ tasks = NoTasks

SetConnecting ==
    \E address \in Address :
        LET r == set_connecting(peer_book, address)
        IN  /\ peer_book' = r.book
            /\ prev' = peer_book
            /\ last' = Call("set_connecting", address, None, r.result)
            /\ UNCHANGED net

SetConnected ==
    \E address \in Address, listener \in {None} \cup Address :
        LET r == set_connected(peer_book, address, listener)
        IN  \* a listener that is given differs from the address
            /\ listener # address
            /\ WithinBounds(r.book)
            /\ peer_book' = r.book
            /\ prev' = peer_book
            /\ last' = Call("set_connected", address, listener, r.result)
            /\ UNCHANGED net

SetDisconnected ==
    \E address \in Address :
        LET r == set_disconnected(peer_book, address)
        IN  /\ WithinBounds(r.book)
            /\ peer_book' = r.book
            /\ prev' = peer_book
            /\ last' = Call("set_disconnected", address, None, r.result)
            /\ UNCHANGED net

AddPeer ==
    \E address \in Address :
        /\ peer_book' = add_peer(peer_book, address)
        /\ prev' = peer_book
        /\ last' = Call("add_peer", address, None, "Ok")
        /\ UNCHANGED net

RemovePeer ==
    \E address \in Address :
        /\ peer_book' = remove_peer(peer_book, address)
        /\ prev' = peer_book
        /\ last' = Call("remove_peer", address, None, "Ok")
        /\ UNCHANGED net

Next ==
    \/ AddPeer
    \/ SetConnecting
    \/ SetConnected
    \/ SetDisconnected
    \/ RemovePeer

Spec == Init /\ [][Next]_vars

(***************************************************************************)
(* The peers' last_seen timestamps: peers connect and disconnect, are seen, *)
(* and the sync task asks for the peer seen last.                           *)
(***************************************************************************)
\* A call of a quality method: its address, its other argument (a time or a
\* count, else None) and the value it returns (Ok for a method returning ()).
QualityCall(op, address, arg, result) ==
    [op |-> op, address |-> address, arg |-> arg, result |-> result]

\* The specifications of the quality methods follow each peer through one
\* connection: set_connected(address, None), which may be repeated while the
\* peer is connected, and then set_disconnected(address).
ConnectIn(peers) ==
    \E address \in peers :
        LET r == set_connected(peer_book, address, None)
        IN  /\ ~is_disconnected(peer_book, address)
            /\ peer_book' = r.book
            /\ prev' = peer_book
            /\ last' = Call("set_connected", address, None, r.result)
            /\ UNCHANGED net

DisconnectIn(peers) ==
    \E address \in peers :
        LET r == set_disconnected(peer_book, address)
        IN  /\ is_connected(peer_book, address)
            /\ peer_book' = r.book
            /\ prev' = peer_book
            /\ last' = Call("set_disconnected", address, None, r.result)
            /\ UNCHANGED net

Connect == ConnectIn(Address)

Disconnect == DisconnectIn(Address)

UpdateLastSeen ==
    \E addr \in Address, now \in Time :
        /\ peer_book' = update_last_seen(peer_book, addr, now)
        /\ prev' = peer_book
        /\ last' = QualityCall("update_last_seen", addr, now, "Ok")
        /\ UNCHANGED net

LastSeen ==
    \E result \in last_seen(peer_book) :
        /\ peer_book' = peer_book
        /\ prev' = peer_book
        /\ last' = QualityCall("last_seen", None, None, result)
        /\ UNCHANGED net

NextSeen ==
    \/ Connect
    \/ Disconnect
    \/ UpdateLastSeen
    \/ LastSeen

SpecSeen == Init /\ [][NextSeen]_vars

(***************************************************************************)
(* Properties of the peer book.  `last` and `prev` give the call that led *)
(* to the current state and the book it was made on.                       *)
(***************************************************************************)
\* The number of collections of the book that hold the address.
Memberships(book, a) ==
    (IF is_connecting(book, a) THEN 1 ELSE 0)
  + (IF is_connected(book, a) THEN 1 ELSE 0)
  + (IF is_disconnected(book, a) THEN 1 ELSE 0)

\* The address is in one of the three collections.
Known(book, a) ==
    is_connecting(book, a) \/ is_connected(book, a) \/ is_disconnected(book, a)

\* The address has a PeerInfo: it is a key of the connected or the disconnected map.
HasPeerInfo(book, a) == is_connected(book, a) \/ is_disconnected(book, a)

AfterSetCall == last.op \in {"set_connecting", "set_connected", "set_disconnected"}

\* The listener address a set_connected call resolves.
EffectiveListener == IF last.listener # None THEN last.listener ELSE last.address

C2_DisconnectedOnly ==
    (last.op = "set_disconnected" /\ last.result = "Ok") =>
        /\ is_disconnected(peer_book, last.address)
        /\ ~is_connecting(peer_book, last.address)
        /\ ~is_connected(peer_book, last.address)

\* C3: after set_connected(a, None) returns Ok, a is in the connected map and in
\* neither the connecting set nor the disconnected map, whatever a was before.
C3_ConnectedOnly ==
    (last.op = "set_connected" /\ last.listener = None /\ last.result = "Ok") =>
        /\ is_connected(peer_book, last.address)
        /\ ~is_connecting(peer_book, last.address)
        /\ ~is_disconnected(peer_book, last.address)

\* set_connected(a, None) has returned Ok for an address that was connecting
\* and disconnected after an earlier connection.
C3_Witness ==
    /\ last.op = "set_connected"
    /\ last.listener = None
    /\ last.result = "Ok"
    /\ is_connecting(prev, last.address)
    /\ is_disconnected(prev, last.address)
    /\ prev.disconnected_peers[last.address].status = "Disconnected"
    /\ is_connected(peer_book, last.address)

\* C4 as stated: no address is in the connecting set and the connected map at
\* once; after set_connected(transient, Some(listener)) returns Ok, the
\* listener is in the connected map and in neither the connecting set nor the
\* disconnected map.
C4_NeverConnectingAndConnected ==
    /\ \A a \in Address : ~(is_connecting(peer_book, a) /\ is_connected(peer_book, a))
    /\ (last.op = "set_connected" /\ last.listener # None /\ last.result = "Ok") =>
          /\ is_connected(peer_book, last.listener)
          /\ ~is_connecting(peer_book, last.listener)
          /\ ~is_disconnected(peer_book, last.listener)

C6_ConnectingKeepsDisconnected ==
    (last.op = "set_connecting" /\ is_disconnected(prev, last.address)) =>
        /\ last.result = "Ok"
        /\ is_connecting(peer_book, last.address)
        /\ is_disconnected(peer_book, last.address)
        /\ ~is_connected(peer_book, last.address)
        /\ peer_book.disconnected_peers = prev.disconnected_peers

\* set_connecting has been called on a never-connected peer of the disconnected
\* map that was not connecting yet.
C6_Witness ==
    /\ last.op = "set_connecting"
    /\ is_disconnected(prev, last.address)
    /\ ~is_connecting(prev, last.address)
    /\ prev.disconnected_peers[last.address].status = "NeverConnected"
    /\ is_connecting(peer_book, last.address)

\* C7: set_connecting(a) returns PeerAlreadyConnected exactly when a is in the
\* connected map, and then the book is unchanged; otherwise it returns Ok, a is
\* in the connecting set and the two maps are unchanged.
C7_SetConnectingResult ==
    last.op = "set_connecting" =>
        /\ last.result \in {"Ok", "PeerAlreadyConnected"}
        /\ (last.result = "PeerAlreadyConnected") <=> is_connected(prev, last.address)
        /\ last.result = "PeerAlreadyConnected" => peer_book = prev
        /\ last.result = "Ok" =>
              /\ is_connecting(peer_book, last.address)
              /\ peer_book.connecting_peers \ {last.address}
                     = prev.connecting_peers \ {last.address}
              /\ peer_book.connected_peers = prev.connected_peers
              /\ peer_book.disconnected_peers = prev.disconnected_peers

\* set_connecting has been refused for a connected address.
C7_Witness ==
    /\ last.op = "set_connecting"
    /\ last.result = "PeerAlreadyConnected"
    /\ is_connected(prev, last.address)

\* C8 as stated: set_connected for a listener that is already in the connected
\* map succeeds and keeps the history of the existing PeerInfo: its
\* disconnected_count is as it was and its connected_count is not smaller.
C8_DuplicateKeepsPeerInfo ==
    (last.op = "set_connected" /\ is_connected(prev, EffectiveListener)) =>
        /\ last.result = "Ok"
        /\ is_connected(peer_book, EffectiveListener)
        /\ peer_book.connected_peers[EffectiveListener].disconnected_count
              = prev.connected_peers[EffectiveListener].disconnected_count
        /\ peer_book.connected_peers[EffectiveListener].connected_count
              >= prev.connected_peers[EffectiveListener].connected_count

C10_AddPeerFrame ==
    last.op = "add_peer" =>
        IF Known(prev, last.address)
        THEN peer_book = prev
        ELSE /\ is_disconnected(peer_book, last.address)
             /\ peer_book.disconnected_peers[last.address].status = "NeverConnected"
             /\ peer_book.connecting_peers = prev.connecting_peers
             /\ peer_book.connected_peers = prev.connected_peers
             /\ DOMAIN peer_book.disconnected_peers
                    = DOMAIN prev.disconnected_peers \cup {last.address}
             /\ \A a \in DOMAIN prev.disconnected_peers :
                    peer_book.disconnected_peers[a] = prev.disconnected_peers[a]

\* add_peer has been called on a disconnected peer with a connection history
\* and has left the book as it was.
C10_Witness ==
    /\ last.op = "add_peer"
    /\ is_disconnected(prev, last.address)
    /\ prev.disconnected_peers[last.address].connected_count >= 1
    /\ peer_book = prev

\* C11: after remove_peer(a), a is in none of the three collections, whatever
\* it was in before, and the membership and the PeerInfo of every other
\* address are as they were.
C11_RemovePeerFrame ==
    last.op = "remove_peer" =>
        /\ ~Known(peer_book, last.address)
        /\ \A b \in Address \ {last.address} :
              /\ is_connecting(peer_book, b) <=> is_connecting(prev, b)
              /\ is_connected(peer_book, b) <=> is_connected(prev, b)
              /\ is_disconnected(peer_book, b) <=> is_disconnected(prev, b)
              /\ is_connected(prev, b) =>
                    peer_book.connected_peers[b] = prev.connected_peers[b]
              /\ is_disconnected(prev, b) =>
                    peer_book.disconnected_peers[b] = prev.disconnected_peers[b]

\* remove_peer has been called on an address that was connecting and
\* disconnected, while another address was connected.
C11_Witness ==
    /\ last.op = "remove_peer"
    /\ is_connecting(prev, last.address)
    /\ is_disconnected(prev, last.address)
    /\ \E b \in Address \ {last.address} :
          is_connected(prev, b) /\ is_connected(peer_book, b)

(***************************************************************************)
(* Pings and Pongs of connected (and other) peers.                         *)
(***************************************************************************)
SendingPing ==
    \E target \in Address, now \in Time :
        /\ peer_book' = sending_ping(peer_book, target, now)
        /\ prev' = peer_book
        /\ last' = QualityCall("sending_ping", target, now, "Ok")
        /\ UNCHANGED net

ReceivedPong ==
    \E source \in Address, now \in Time :
        LET r == received_pong(peer_book, source, now)
        IN  \* Instant::now() is monotonic: elapsed() is not negative
            /\ has_peer_quality(peer_book, source) =>
                  /\ now >= peer_quality(peer_book, source).last_ping_sent
                  /\ peer_quality(r.book, source).failures <= MaxFailures
            /\ peer_book' = r.book
            /\ prev' = peer_book
            /\ last' = QualityCall("received_pong", source, now, r.result)
            /\ UNCHANGED net

\* The peers that connect while Pings and Pongs are followed.
PingPeer == 1..NumQualityPeers

PingConnect == ConnectIn(PingPeer)

PingDisconnect == DisconnectIn(PingPeer)

NextPing ==
    \/ PingConnect
    \/ PingDisconnect
    \/ SendingPing
    \/ ReceivedPong

SpecPing == Init /\ [][NextPing]_vars

(***************************************************************************)
(* The counter of sync blocks: a peer connects, a number of blocks is       *)
(* announced for it, and the receipt of sync blocks is registered.          *)
(***************************************************************************)
\* The peers that connect while block syncs are followed.
SyncPeer == 1..NumQualityPeers

\* The counts a caller passes: small ones, and the usize values around 2^16.
SyncCount == (0..MaxSyncCount) \cup {U16 - 1, U16, U16 + 1}

\* set_connected(address, None); the history of the peer's sync starts anew.
SyncConnect ==
    \E address \in SyncPeer :
        LET r == set_connected(peer_book, address, None)
        IN  /\ ~is_disconnected(peer_book, address)
            /\ peer_book' = r.book
            /\ prev' = peer_book
            /\ last' = Call("set_connected", address, None, r.result)
            /\ outbound' = << >>
            /\ UNCHANGED tasks
            /\ sync_session' = [sync_session EXCEPT ![address] = NoSession]

SyncDisconnect ==
    \E address \in SyncPeer :
        LET r == set_disconnected(peer_book, address)
        IN  /\ is_connected(peer_book, address)
            /\ peer_book' = r.book
            /\ prev' = peer_book
            /\ last' = Call("set_disconnected", address, None, r.result)
            /\ outbound' = << >>
            /\ UNCHANGED tasks
            /\ sync_session' = [sync_session EXCEPT ![address] = NoSession]

ExpectingSyncBlocks ==
    \E addr \in Address, count \in SyncCount :
        /\ peer_book' = expecting_sync_blocks(peer_book, addr, count)
        /\ prev' = peer_book
        /\ last' = QualityCall("expecting_sync_blocks", addr, count, "Ok")
        /\ outbound' = << >>
        /\ UNCHANGED tasks
        /\ sync_session' =
              IF has_peer_quality(peer_book, addr)
              THEN [sync_session EXCEPT ![addr].announced = TRUE,
                                        ![addr].expected = count,
                                        ![addr].got = 0]
              ELSE sync_session

GotSyncBlock ==
    \E addr \in Address :
        LET r == got_sync_block(peer_book, addr)
        IN  /\ sync_session[addr].got <= MaxSyncCount
            /\ peer_book' = r.book
            /\ prev' = peer_book
            /\ last' = QualityCall("got_sync_block", addr, None, r.result)
            /\ outbound' = << >>
            /\ UNCHANGED tasks
            /\ sync_session' =
                  IF has_peer_quality(peer_book, addr)
                  THEN [sync_session EXCEPT ![addr].got = @ + 1]
                  ELSE sync_session

NextSyncCount ==
    \/ SyncConnect
    \/ SyncDisconnect
    \/ ExpectingSyncBlocks
    \/ GotSyncBlock

SpecSyncCount == Init /\ [][NextSyncCount]_vars

(***************************************************************************)
(* A block sync with a peer.  The peer announces block hashes with Sync    *)
(* and delivers blocks with SyncBlock, as many and as often as it likes.   *)
(* The dispatch of the two messages is not among the sources; it follows   *)
(* the specification (4.4): on Sync, expecting_sync_blocks(sender, total)  *)
(* and received_sync; on SyncBlock, received_block and got_sync_block.     *)
(***************************************************************************)
\* The node receives Sync(BlockHashes(n)) from a connected peer, for one of
\* the given lengths n and up to a number of hashes requested and not delivered.
ReceivedSyncOf(lengths, most_owed) ==
    \E source \in SyncPeer, n \in lengths :
        /\ is_connected(peer_book, source)
        /\ sync_session[source].owed + n <= most_owed
        /\ peer_book' = expecting_sync_blocks(peer_book, source, n)
        /\ prev' = peer_book
        /\ last' = QualityCall("Sync", source, n, "Ok")
        /\ outbound' = received_sync(source, BlockHashes(n))
        /\ UNCHANGED tasks
        /\ sync_session' = [sync_session EXCEPT ![source].announced = TRUE,
                                                 ![source].expected = n,
                                                 ![source].got = 0,
                                                 ![source].owed = @ + n]

\* The node receives a SyncBlock from a connected peer: one of the blocks it
\* has requested and not received yet, if there is one, else a block it has
\* not asked for.
ReceivedSyncBlock ==
    \E source \in SyncPeer :
        LET r == got_sync_block(peer_book, source)
        IN  /\ is_connected(peer_book, source)
            /\ sync_session[source].got <= MaxSyncCount
            /\ peer_book' = r.book
            /\ prev' = peer_book
            /\ last' = QualityCall("SyncBlock", source, None, r.result)
            /\ \E block \in Blocks :
                  \E sent \in received_block(peer_book, source, block,
                                             Option_None) :
                      outbound' = sent.messages
            /\ UNCHANGED tasks
            /\ sync_session' =
                  [sync_session EXCEPT
                      ![source].got = @ + 1,
                      ![source].owed = IF @ > 0 THEN @ - 1 ELSE 0]

ReceivedSync == ReceivedSyncOf(0..MaxSyncCount, 2 * MaxSyncCount)

NextSync ==
    \/ SyncConnect
    \/ SyncDisconnect
    \/ ReceivedSync
    \/ ReceivedSyncBlock

SpecSync == Init /\ [][NextSync]_vars

\* The same sync with a peer that may also announce 2^16 hashes in one Sync,
\* when no requested block is outstanding.
ReceivedLongSync == ReceivedSyncOf({U16}, U16)

NextLongSync ==
    \/ SyncConnect
    \/ SyncDisconnect
    \/ ReceivedSync
    \/ ReceivedLongSync
    \/ ReceivedSyncBlock

SpecLongSync == Init /\ [][NextLongSync]_vars

(***************************************************************************)
(* Blocks arriving at a node whose peers connect, disconnect and sync.     *)
(* received_block is called with the connected peers of the book for a     *)
(* Block message and with None for a SyncBlock message.                    *)
(***************************************************************************)
BlockCall(remote_address, block, gossiped, syncing, outcome) ==
    [op |-> "received_block", address |-> remote_address, block |-> block,
     gossiped |-> gossiped, syncing |-> syncing, result |-> outcome.result,
     deserialized |-> outcome.deserialized, verified |-> outcome.verified]

ReceivedBlock ==
    \E remote_address \in Address, block \in Blocks, gossiped \in BOOLEAN :
        LET connected_peers ==
                IF gossiped THEN Some(peer_book.connected_peers)
                ELSE Option_None
        IN  \E r \in received_block(peer_book, remote_address, block,
                                    connected_peers) :
                /\ outbound' = r.messages
                /\ last' = BlockCall(remote_address, block, gossiped,
                               Consensus_is_syncing_blocks(peer_book), r)
                /\ prev' = peer_book
                /\ UNCHANGED <<peer_book, sync_session, tasks>>

\* A peer is asked for one block, and the block arrives.
BlocksExpecting ==
    \E addr \in Address :
        /\ peer_book' = expecting_sync_blocks(peer_book, addr, 1)
        /\ prev' = peer_book
        /\ last' = QualityCall("expecting_sync_blocks", addr, 1, "Ok")
        /\ UNCHANGED net

BlocksGot ==
    \E addr \in Address :
        LET r == got_sync_block(peer_book, addr)
        IN  /\ is_syncing_blocks(peer_book, addr)
            /\ peer_book' = r.book
            /\ prev' = peer_book
            /\ last' = QualityCall("got_sync_block", addr, None, r.result)
            /\ UNCHANGED net

NextBlocks ==
    \/ Connect
    \/ Disconnect
    \/ BlocksExpecting
    \/ BlocksGot
    \/ ReceivedBlock

SpecBlocks == Init /\ [][NextBlocks]_vars

(***************************************************************************)
(* The two sides of a chain sync: a peer asks for the node's chain state   *)
(* with GetSync, and a peer answers the node's GetSync with Sync.          *)
(***************************************************************************)
\* The message the node handles: a GetSync of a peer, given by the storage's
\* answers for its block locator hashes, or a Sync of a peer, given by its
\* block hashes.
InitChain ==
    /\ peer_book = PeerBook_default
    /\ prev = PeerBook_default
    /\ outbound = << >>
    /\ sync_session = [a \in Address |-> NoSession]
    /\ tasks = NoTasks
    /\ last \in {QualityCall("GetSync", remote_address, storage, "inbound") :
                    remote_address \in Address, storage \in Storages}
           \cup {QualityCall("Sync", remote_address, BlockHashes(n), "inbound") :
                    remote_address \in Address, n \in 0..MaxHashes}

ReceivedGetSync ==
    LET r == received_get_sync(last.arg, last.address)
    IN  /\ last.op = "GetSync"
        /\ outbound' = r.messages
        /\ last' = QualityCall("received_get_sync", last.address, last.arg,
                               r.result)
        /\ prev' = peer_book
        /\ UNCHANGED <<peer_book, sync_session, tasks>>

ReceivedSyncHashes ==
    /\ last.op = "Sync"
    /\ last.result = "inbound"
    /\ outbound' = received_sync(last.address, last.arg)
    /\ last' = QualityCall("received_sync", last.address, last.arg, "Ok")
    /\ prev' = peer_book
    /\ UNCHANGED <<peer_book, sync_session, tasks>>

NextChain ==
    \/ ReceivedGetSync
    \/ ReceivedSyncHashes

SpecChain == InitChain /\ [][NextChain]_vars

(***************************************************************************)
(* Hash lists arriving at a node with stored blocks: a Sync that announces *)
(* hashes and a GetBlocks that asks for blocks.                            *)
(***************************************************************************)
StoredCall(op, remote_address, storage, hashes, result) ==
    [op |-> op, address |-> remote_address, storage |-> storage,
     hashes |-> hashes, result |-> result]

InitStored ==
    /\ peer_book = PeerBook_default
    /\ prev = PeerBook_default
    /\ outbound = << >>
    /\ sync_session = [a \in Address |-> NoSession]
    /\ tasks = NoTasks
    /\ last \in {StoredCall(op, remote_address, storage, hashes, "inbound") :
                    op \in {"Sync", "GetBlocks"}, remote_address \in Address,
                    storage \in Chains, hashes \in HashLists}

ReceivedSyncStored ==
    /\ last.op = "Sync"
    /\ last.result = "inbound"
    /\ outbound' = received_sync(last.address, last.hashes)
    /\ last' = StoredCall("received_sync", last.address, last.storage,
                          last.hashes, "Ok")
    /\ prev' = peer_book
    /\ UNCHANGED <<peer_book, sync_session, tasks>>

ReceivedGetBlocks ==
    LET r == received_get_blocks(last.storage, last.address, last.hashes)
    IN  /\ last.op = "GetBlocks"
        /\ outbound' = r.messages
        /\ last' = StoredCall("received_get_blocks", last.address,
                              last.storage, last.hashes, r.result)
        /\ prev' = peer_book
        /\ UNCHANGED <<peer_book, sync_session, tasks>>

NextStored ==
    \/ ReceivedSyncStored
    \/ ReceivedGetBlocks

SpecStored == InitStored /\ [][NextStored]_vars

(***************************************************************************)
(* RPC calls on a node whose peers connect, disconnect and sync.           *)
(***************************************************************************)
GetNodeInfo ==
    \E consensus_layer \in ConsensusLayers :
        /\ last' = [op |-> "get_node_info",
                    result |-> get_node_info(consensus_layer)]
        /\ outbound' = << >>
        /\ prev' = peer_book
        /\ UNCHANGED <<peer_book, sync_session, tasks>>

SendRawTransaction ==
    \E transaction \in Transactions :
        LET r == send_raw_transaction(transaction)
        IN  /\ last' = [op |-> "send_raw_transaction",
                        transaction |-> transaction,
                        result |-> r.result, inserted |-> r.inserted]
            /\ outbound' = r.messages
            /\ prev' = peer_book
            /\ UNCHANGED <<peer_book, sync_session, tasks>>

NextRpc ==
    \/ Connect
    \/ Disconnect
    \/ BlocksExpecting
    \/ BlocksGot
    \/ GetNodeInfo
    \/ SendRawTransaction

SpecRpc == Init /\ [][NextRpc]_vars

(***************************************************************************)
(* Concurrent calls of got_sync_block.  After expecting_sync_blocks(addr,  *)
(* count), count tasks call got_sync_block(addr), each holding the book    *)
(* for reading, so that the peer neither connects nor disconnects while a  *)
(* call is under way.  A call takes two steps: peer_quality(addr), and the *)
(* fetch_sub on the counter of the quality block.                          *)
(***************************************************************************)
NoCallUnderWay == \A t \in Task : tasks.calls[t].pc \in {"idle", "done"}

TasksConnect ==
    \E address \in SyncPeer :
        LET r == set_connected(peer_book, address, None)
        IN  /\ NoCallUnderWay
            /\ ~is_disconnected(peer_book, address)
            /\ peer_book' = r.book
            /\ prev' = peer_book
            /\ last' = Call("set_connected", address, None, r.result)
            /\ tasks' = NoTasks
            /\ UNCHANGED <<outbound, sync_session>>

TasksDisconnect ==
    \E address \in SyncPeer :
        LET r == set_disconnected(peer_book, address)
        IN  /\ NoCallUnderWay
            /\ is_connected(peer_book, address)
            /\ peer_book' = r.book
            /\ prev' = peer_book
            /\ last' = Call("set_disconnected", address, None, r.result)
            /\ tasks' = NoTasks
            /\ UNCHANGED <<outbound, sync_session>>

\* expecting_sync_blocks(addr, count); count tasks are about to call
\* got_sync_block(addr).
TasksExpecting ==
    \E addr \in SyncPeer, count \in 1..NumTasks :
        /\ NoCallUnderWay
        /\ peer_book' = expecting_sync_blocks(peer_book, addr, count)
        /\ prev' = peer_book
        /\ last' = QualityCall("expecting_sync_blocks", addr, count, "Ok")
        /\ tasks' = [addr |-> addr, count |-> count,
                     calls |-> [t \in Task |->
                                   IF t <= count
                                   THEN [IdleTask EXCEPT !.pc = "called"]
                                   ELSE IdleTask]]
        /\ UNCHANGED <<outbound, sync_session>>

\* got_sync_block, `if let Some(ref pq) = self.peer_quality(addr)`: the task
\* finds the quality block, or returns true.
TaskPeerQuality ==
    \E t \in Task :
        /\ tasks.calls[t].pc = "called"
        /\ tasks' = IF has_peer_quality(peer_book, tasks.addr)
                    THEN [tasks EXCEPT !.calls[t].pc = "found"]
                    ELSE [tasks EXCEPT !.calls[t].pc = "done",
                                       !.calls[t].result = TRUE]
        /\ UNCHANGED <<peer_book, prev, last, outbound, sync_session>>

\* A faulty decrement that loads the counter and stores it in two steps.
TaskFetchSub_load_store ==
    \E t \in Task :
        LET quality == peer_quality(peer_book, tasks.addr)
        IN  \/ /\ tasks.calls[t].pc = "found"
               /\ tasks' = [tasks EXCEPT
                               !.calls[t].pc = "loaded",
                               !.calls[t].held = quality.remaining_sync_blocks]
               /\ UNCHANGED <<peer_book, prev, last, outbound, sync_session>>
            \/ /\ tasks.calls[t].pc = "loaded"
               /\ peer_book' = with_quality(peer_book, tasks.addr,
                                  [quality EXCEPT !.remaining_sync_blocks =
                                      (tasks.calls[t].held - 1) % U16])
               /\ prev' = peer_book
               /\ last' = QualityCall("got_sync_block", tasks.addr, t,
                                      tasks.calls[t].held = 1)
               /\ tasks' = [tasks EXCEPT
                               !.calls[t].pc = "done",
                               !.calls[t].result = (tasks.calls[t].held = 1)]
               /\ UNCHANGED <<outbound, sync_session>>

\* got_sync_block, `pq.remaining_sync_blocks.fetch_sub(1, SeqCst) == 1`: one
\* atomic step reads the counter and writes it decremented.
TaskFetchSub ==
    \E t \in Task :
        LET quality == peer_quality(peer_book, tasks.addr)
        IN  /\ tasks.calls[t].pc = "found"
            /\ peer_book' = with_quality(peer_book, tasks.addr,
                               [quality EXCEPT !.remaining_sync_blocks =
                                   (@ - 1) % U16])
            /\ prev' = peer_book
            /\ last' = QualityCall("got_sync_block", tasks.addr, t,
                                   quality.remaining_sync_blocks = 1)
            /\ tasks' = [tasks EXCEPT
                            !.calls[t].pc = "done",
                            !.calls[t].result =
                                (quality.remaining_sync_blocks = 1)]
            /\ UNCHANGED <<outbound, sync_session>>

NextTasks ==
    \/ TasksConnect
    \/ TasksDisconnect
    \/ TasksExpecting
    \/ TaskPeerQuality
    \/ TaskFetchSub

SpecTasks == Init /\ [][NextTasks]_vars

(***************************************************************************)
(* The quality methods called for an address outside the connected map:    *)
(* one that is unknown, connecting or disconnected, while other peers are  *)
(* connected and syncing.                                                  *)
(***************************************************************************)
OutsideSendingPing ==
    \E target \in Address, now \in Time :
        /\ ~is_connected(peer_book, target)
        /\ peer_book' = sending_ping(peer_book, target, now)
        /\ prev' = peer_book
        /\ last' = QualityCall("sending_ping", target, now, "Ok")
        /\ UNCHANGED net

OutsideReceivedPong ==
    \E source \in Address, now \in Time :
        LET r == received_pong(peer_book, source, now)
        IN  /\ ~is_connected(peer_book, source)
            /\ peer_book' = r.book
            /\ prev' = peer_book
            /\ last' = QualityCall("received_pong", source, now, r.result)
            /\ UNCHANGED net

\* got_sync_block for any address; a connected peer's counter is not run below
\* zero.
QualityGotSyncBlock ==
    \E addr \in Address :
        LET r == got_sync_block(peer_book, addr)
        IN  /\ has_peer_quality(peer_book, addr) => is_syncing_blocks(peer_book, addr)
            /\ peer_book' = r.book
            /\ prev' = peer_book
            /\ last' = QualityCall("got_sync_block", addr, None, r.result)
            /\ UNCHANGED net

IsSyncingBlocks ==
    \E addr \in Address :
        /\ peer_book' = peer_book
        /\ prev' = peer_book
        /\ last' = QualityCall("is_syncing_blocks", addr, None,
                       is_syncing_blocks(peer_book, addr))
        /\ UNCHANGED net

NextQuality ==
    \/ AddPeer
    \/ SetConnecting
    \/ PingConnect
    \/ PingDisconnect
    \/ OutsideSendingPing
    \/ OutsideReceivedPong
    \/ BlocksExpecting
    \/ QualityGotSyncBlock
    \/ IsSyncingBlocks

SpecQuality == Init /\ [][NextQuality]_vars

(***************************************************************************)
(* Concurrent calls of sending_ping and received_pong for one peer, each   *)
(* holding the book for reading.  sending_ping takes three steps:          *)
(* peer_quality(target), the write of last_ping_sent under its lock, and   *)
(* the store of expecting_pong.  received_pong takes up to five:           *)
(* peer_quality(source), the load of expecting_pong, and then either the   *)
(* unwrap of last_ping_sent, the store of rtt_ms and the store of          *)
(* expecting_pong, or the fetch_add on failures.                           *)
(***************************************************************************)
\* The tasks that call sending_ping or received_pong.
PingTask == 1..NumPingTasks

\* set_connected(address, None) for the one peer that is followed: the first
\* to connect, which may connect again and so start with a new quality block.
PingTasksConnect ==
    \E address \in SyncPeer :
        LET r == set_connected(peer_book, address, None)
        IN  /\ NoCallUnderWay
            /\ DOMAIN peer_book.connected_peers \subseteq {address}
            /\ peer_book' = r.book
            /\ prev' = peer_book
            /\ last' = Call("set_connected", address, None, r.result)
            /\ tasks' = NoTasks
            /\ UNCHANGED <<outbound, sync_session>>

\* Each task is about to call sending_ping(addr) or received_pong(addr).
PingTasksStart ==
    \E addr \in SyncPeer, ops \in [PingTask -> {"ping_called", "pong_called"}] :
        /\ NoCallUnderWay
        /\ tasks' = [addr |-> addr, count |-> NumPingTasks,
                     calls |-> [t \in Task |->
                                   IF t \in PingTask
                                   THEN [IdleTask EXCEPT !.pc = ops[t]]
                                   ELSE IdleTask]]
        /\ prev' = peer_book
        /\ UNCHANGED <<peer_book, last, outbound, sync_session>>

\* `if let Some(quality) = self.peer_quality(...)`: the task finds the quality
\* block, or logs a warning and returns.
PingTaskPeerQuality ==
    \E t \in PingTask :
        /\ tasks.calls[t].pc \in {"ping_called", "pong_called"}
        /\ tasks' =
              IF ~has_peer_quality(peer_book, tasks.addr)
              THEN [tasks EXCEPT !.calls[t].pc = "done"]
              ELSE IF tasks.calls[t].pc = "ping_called"
              THEN [tasks EXCEPT !.calls[t].pc = "ping_found"]
              ELSE [tasks EXCEPT !.calls[t].pc = "pong_found"]
        /\ prev' = peer_book
        /\ UNCHANGED <<peer_book, last, outbound, sync_session>>

\* A faulty sending_ping that stores expecting_pong before it writes
\* last_ping_sent.
TaskSendingPing_flag_first ==
    \E t \in PingTask :
        LET quality == peer_quality(peer_book, tasks.addr)
        IN  \/ /\ tasks.calls[t].pc = "ping_found"
               /\ peer_book' = with_quality(peer_book, tasks.addr,
                                  [quality EXCEPT !.expecting_pong = TRUE])
               /\ prev' = peer_book
               /\ tasks' = [tasks EXCEPT !.calls[t].pc = "ping_stamped"]
               /\ UNCHANGED <<last, outbound, sync_session>>
            \/ \E now \in Time :
                  /\ tasks.calls[t].pc = "ping_stamped"
                  /\ peer_book' = with_quality(peer_book, tasks.addr,
                                     [quality EXCEPT !.last_ping_sent = now])
                  /\ prev' = peer_book
                  /\ tasks' = [tasks EXCEPT !.calls[t].pc = "done"]
                  /\ UNCHANGED <<last, outbound, sync_session>>

\* sending_ping, `*quality.last_ping_sent.lock() = Some(timestamp)` and then
\* `quality.expecting_pong.store(true, SeqCst)`.
TaskSendingPing ==
    \E t \in PingTask :
        LET quality == peer_quality(peer_book, tasks.addr)
        IN  \/ \E now \in Time :
                  /\ tasks.calls[t].pc = "ping_found"
                  /\ peer_book' = with_quality(peer_book, tasks.addr,
                                     [quality EXCEPT !.last_ping_sent = now])
                  /\ prev' = peer_book
                  /\ tasks' = [tasks EXCEPT !.calls[t].pc = "ping_stamped"]
                  /\ UNCHANGED <<last, outbound, sync_session>>
            \/ /\ tasks.calls[t].pc = "ping_stamped"
               /\ peer_book' = with_quality(peer_book, tasks.addr,
                                  [quality EXCEPT !.expecting_pong = TRUE])
               /\ prev' = peer_book
               /\ tasks' = [tasks EXCEPT !.calls[t].pc = "done"]
               /\ UNCHANGED <<last, outbound, sync_session>>

\* received_pong, `if quality.expecting_pong.load(SeqCst)`.
TaskLoadExpectingPong ==
    \E t \in PingTask :
        /\ tasks.calls[t].pc = "pong_found"
        /\ tasks' = IF peer_quality(peer_book, tasks.addr).expecting_pong
                    THEN [tasks EXCEPT !.calls[t].pc = "pong_expected"]
                    ELSE [tasks EXCEPT !.calls[t].pc = "pong_unexpected"]
        /\ prev' = peer_book
        /\ UNCHANGED <<peer_book, last, outbound, sync_session>>

\* received_pong, `quality.last_ping_sent.lock().unwrap()`: the task takes the
\* timestamp, or panics on None.
TaskUnwrapLastPingSent ==
    \E t \in PingTask :
        LET last_ping_sent == peer_quality(peer_book, tasks.addr).last_ping_sent
        IN  /\ tasks.calls[t].pc = "pong_expected"
            /\ tasks' = IF last_ping_sent = None
                        THEN [tasks EXCEPT !.calls[t].pc = "panicked"]
                        ELSE [tasks EXCEPT !.calls[t].pc = "pong_unwrapped",
                                           !.calls[t].held = last_ping_sent]
            /\ prev' = peer_book
        /\ UNCHANGED <<peer_book, last, outbound, sync_session>>

\* received_pong, `quality.rtt_ms.store(rtt, SeqCst)` with the time elapsed
\* since the timestamp, and then `quality.expecting_pong.store(false, SeqCst)`.
TaskStoreRtt ==
    \E t \in PingTask :
        LET quality == peer_quality(peer_book, tasks.addr)
        IN  \/ \E now \in Time :
                  /\ tasks.calls[t].pc = "pong_unwrapped"
                  /\ now >= tasks.calls[t].held
                  /\ peer_book' = with_quality(peer_book, tasks.addr,
                                     [quality EXCEPT !.rtt_ms = now - tasks.calls[t].held])
                  /\ prev' = peer_book
                  /\ tasks' = [tasks EXCEPT !.calls[t].pc = "pong_measured"]
                  /\ UNCHANGED <<last, outbound, sync_session>>
            \/ /\ tasks.calls[t].pc = "pong_measured"
               /\ peer_book' = with_quality(peer_book, tasks.addr,
                                  [quality EXCEPT !.expecting_pong = FALSE])
               /\ prev' = peer_book
               /\ tasks' = [tasks EXCEPT !.calls[t].pc = "done"]
               /\ UNCHANGED <<last, outbound, sync_session>>

\* received_pong, `quality.failures.fetch_add(1, Relaxed)`.
TaskFailure ==
    \E t \in PingTask :
        LET quality == peer_quality(peer_book, tasks.addr)
        IN  /\ tasks.calls[t].pc = "pong_unexpected"
            /\ quality.failures < MaxFailures
            /\ peer_book' = with_quality(peer_book, tasks.addr,
                               [quality EXCEPT !.failures = @ + 1])
            /\ prev' = peer_book
            /\ tasks' = [tasks EXCEPT !.calls[t].pc = "done"]
            /\ UNCHANGED <<last, outbound, sync_session>>

NextPingTasks ==
    \/ PingTasksConnect
    \/ PingTasksStart
    \/ PingTaskPeerQuality
    \/ TaskSendingPing
    \/ TaskLoadExpectingPong
    \/ TaskUnwrapLastPingSent
    \/ TaskStoreRtt
    \/ TaskFailure

SpecPingTasks == Init /\ [][NextPingTasks]_vars

(***************************************************************************)
(* Concurrent calls of received_block, each a task of the node.  A call    *)
(* takes its steps at the points where it may wait: the lock of the memory *)
(* pool, the end of the statement that calls consensus receive_block, and  *)
(* each send_request(..).await of propagate_block.  `tasks` holds the      *)
(* holder of the memory-pool lock and each handler's position: "idle",     *)
(* "deserialized", "locked" inside the receive_block statement, "received" *)
(* after it with its verdict, "sending" in propagate_block with the peers  *)
(* still to send to.  The arguments of a call (the block, its sender and   *)
(* the connected peers) are inputs, each drawn at the step that reads it.  *)
(***************************************************************************)
\* The tasks that handle a block.
Handler == 1..NumHandlers

IdleHandler == [pc |-> "idle", is_valid_block |-> FALSE, sends |-> {}]

\* The memory-pool lock is free and no block is being handled.
NoHandlers == [memory_pool |-> None, calls |-> [t \in Handler |-> IdleHandler]]

InitPool ==
    /\ peer_book = PeerBook_default
    /\ prev = PeerBook_default
    /\ last = Call("default", None, None, "Ok")
    /\ outbound = << >>
    /\ sync_session = [a \in Address |-> NoSession]
    /\ tasks = NoHandlers

\* received_block up to Block::deserialize: a block that is too large or
\* malformed ends the call with an error.
HandlerStart ==
    \E t \in Handler :
        \E deserialized \in
               {block.size <= max_block_size /\ block.well_formed :
                    block \in Blocks} :
            /\ tasks.calls[t].pc = "idle"
            /\ tasks' = IF deserialized
                        THEN [tasks EXCEPT !.calls[t].pc = "deserialized"]
                        ELSE tasks
            /\ UNCHANGED <<peer_book, prev, last, outbound, sync_session>>

\* `self.memory_pool().lock()`: the handler takes the lock once it is free.
HandlerLock ==
    \E t \in Handler :
        /\ tasks.calls[t].pc = "deserialized"
        /\ tasks.memory_pool = None
        /\ tasks' = [tasks EXCEPT !.memory_pool = t, !.calls[t].pc = "locked"]
        /\ UNCHANGED <<peer_book, prev, last, outbound, sync_session>>

\* A faulty received_block whose lock guard lives to the end of the function.
HandlerReceiveBlock_keeping_guard ==
    \E t \in Handler, accepted \in BOOLEAN :
        /\ tasks.calls[t].pc = "locked"
        /\ tasks' = [tasks EXCEPT !.calls[t].pc = "received",
                                  !.calls[t].is_valid_block = accepted]
        /\ UNCHANGED <<peer_book, prev, last, outbound, sync_session>>

\* `let is_valid_block = ... .receive_block(.., &mut self.memory_pool().lock(),
\* ..).is_ok();`: receive_block accepts the block or not, and the lock guard,
\* a temporary of the statement, is dropped at its end.
HandlerReceiveBlock ==
    \E t \in Handler, accepted \in BOOLEAN :
        /\ tasks.calls[t].pc = "locked"
        /\ tasks' = [tasks EXCEPT !.memory_pool = None,
                                  !.calls[t].pc = "received",
                                  !.calls[t].is_valid_block = accepted]
        /\ UNCHANGED <<peer_book, prev, last, outbound, sync_session>>

\* `if let Some(connected_peers) = connected_peers { if is_valid_block &&
\* !self.is_syncing_blocks() {`: the handler enters propagate_block with the
\* keys of connected_peers other than block_miner, the peers it is to send
\* to (none if connected_peers is None), or returns Ok(()).
HandlerPropagate ==
    \E t \in Handler :
        \E targets \in
               {IF gossiped THEN peers \ {remote_address} ELSE {} :
                    gossiped \in BOOLEAN, remote_address \in Address,
                    peers \in SUBSET Address} :
            /\ tasks.calls[t].pc = "received"
            /\ tasks' =
                  IF /\ tasks.calls[t].is_valid_block
                     /\ ~Consensus_is_syncing_blocks(peer_book)
                     /\ targets # {}
                  THEN [tasks EXCEPT !.calls[t].pc = "sending",
                                     !.calls[t].sends = targets]
                  ELSE [tasks EXCEPT !.calls[t] = IdleHandler]
            /\ UNCHANGED <<peer_book, prev, last, outbound, sync_session>>

\* propagate_block, one `send_request(..).await`: the Block message goes out
\* to the next key of the map, which may be any of those left; after the last
\* one the handler returns Ok(()).
HandlerSend ==
    \E t \in Handler, block_bytes \in 1..NumBlocks :
        \E remote_address \in tasks.calls[t].sends :
            /\ tasks.calls[t].pc = "sending"
            /\ outbound' = << Message(remote_address, "Block", block_bytes) >>
            /\ tasks' =
                  IF tasks.calls[t].sends # {remote_address}
                  THEN [tasks EXCEPT !.calls[t].sends = @ \ {remote_address}]
                  ELSE [tasks EXCEPT !.calls[t] = IdleHandler]
            /\ UNCHANGED <<peer_book, prev, last, sync_session>>

NextPool ==
    \/ PingConnect
    \/ BlocksExpecting
    \/ BlocksGot
    \/ HandlerStart
    \/ HandlerLock
    \/ HandlerReceiveBlock
    \/ HandlerPropagate
    \/ HandlerSend

SpecPool == InitPool /\ [][NextPool]_vars

(***************************************************************************)
(* Properties of the quality methods.                                      *)
(***************************************************************************)
\* C12: last_seen() returns None exactly when the connected map is empty;
\* otherwise it returns an address of the connected map whose last_seen
\* timestamp is at least that of every connected peer.
C12_LastSeenIsLatestConnected ==
    last.op = "last_seen" =>
        /\ (last.result = None) <=> (DOMAIN peer_book.connected_peers = {})
        /\ last.result # None =>
              /\ is_connected(peer_book, last.result)
              /\ \A b \in DOMAIN peer_book.connected_peers :
                    peer_book.connected_peers[b].quality.last_seen
                        <= peer_book.connected_peers[last.result].quality.last_seen

\* last_seen() has returned the later seen of two connected peers that have
\* both been seen.
C12_Witness ==
    /\ last.op = "last_seen"
    /\ last.result # None
    /\ \E b \in DOMAIN peer_book.connected_peers :
          /\ peer_book.connected_peers[b].quality.last_seen # None
          /\ peer_book.connected_peers[b].quality.last_seen
                < peer_book.connected_peers[last.result].quality.last_seen

\* C13: for a connected peer, received_pong while expecting_pong is set clears
\* the flag, records rtt_ms = now - last_ping_sent and leaves failures as it
\* was; received_pong while the flag is clear adds exactly one to failures and
\* leaves rtt_ms and the flag as they were.
C13_ReceivedPong ==
    (last.op = "received_pong" /\ is_connected(prev, last.address)) =>
        LET before == prev.connected_peers[last.address].quality
            after  == peer_book.connected_peers[last.address].quality
        IN  /\ last.result = "Ok"
            /\ before.expecting_pong =>
                  /\ ~after.expecting_pong
                  /\ after.rtt_ms = last.arg - before.last_ping_sent
                  /\ after.failures = before.failures
            /\ ~before.expecting_pong =>
                  /\ after.failures = before.failures + 1
                  /\ after.rtt_ms = before.rtt_ms
                  /\ ~after.expecting_pong

\* A second Pong has arrived for a Ping that was answered after a positive
\* round trip time: it is counted as the peer's first failure.
C13_Witness ==
    /\ last.op = "received_pong"
    /\ is_connected(prev, last.address)
    /\ ~prev.connected_peers[last.address].quality.expecting_pong
    /\ prev.connected_peers[last.address].quality.last_ping_sent # None
    /\ prev.connected_peers[last.address].quality.rtt_ms > 0
    /\ peer_book.connected_peers[last.address].quality.failures = 1

\* C14 as stated: for a connected peer and n >= 1, after
\* expecting_sync_blocks(addr, n) and then got_sync_block(addr) calls, up to n of
\* them, is_syncing_blocks(addr) is true as long as fewer than n calls were
\* made and false after the n-th, and the call that returns true is the n-th.
C14_CountDown ==
    \A a \in Address :
        (/\ is_connected(peer_book, a)
         /\ sync_session[a].announced
         /\ sync_session[a].expected >= 1
         /\ sync_session[a].got <= sync_session[a].expected) =>
            /\ is_syncing_blocks(peer_book, a)
                  <=> (sync_session[a].got < sync_session[a].expected)
            /\ (last.op = "got_sync_block" /\ last.address = a) =>
                  (last.result <=> (sync_session[a].got = sync_session[a].expected))

\* C15 as stated: in a block sync with a connected peer, the peer's
\* remaining_sync_blocks is 0 exactly when every block hash requested from the
\* peer has been delivered.
C15_ZeroIffAllDelivered ==
    \A a \in Address :
        (is_connected(peer_book, a) /\ sync_session[a].announced) =>
            ((peer_quality(peer_book, a).remaining_sync_blocks = 0)
                <=> (sync_session[a].owed = 0))

\* The Block messages among the messages of the last call.
BlockMessages == SelectSeq(outbound, LAMBDA message : message.payload = "Block")

\* C16: received_block called with connected_peers = None sends no Block
\* message, whatever the block and whether or not the node is syncing.
C16_SyncBlockNotRetransmitted ==
    (last.op = "received_block" /\ ~last.gossiped) => BlockMessages = << >>

\* C16: a valid block has arrived as SyncBlock while peers are connected and
\* the node is not syncing.
C16_Witness ==
    /\ last.op = "received_block" /\ ~last.gossiped
    /\ last.result = "Ok" /\ last.block.accepted /\ ~last.syncing
    /\ DOMAIN peer_book.connected_peers \ {last.address} # {}

\* C17: when a gossiped block from peer s is accepted while the node is not
\* syncing, every connected peer other than s is sent exactly one Block message
\* with the block's bytes, and no other message is sent.
C17_PropagatedToOthers ==
    (/\ last.op = "received_block" /\ last.gossiped
     /\ last.result = "Ok" /\ last.block.accepted /\ ~last.syncing) =>
        /\ \A a \in DOMAIN peer_book.connected_peers \ {last.address} :
              Len(SelectSeq(outbound, LAMBDA message :
                     message = Message(a, "Block", last.block.bytes))) = 1
        /\ \A i \in 1..Len(outbound) :
              /\ outbound[i].payload = "Block"
              /\ outbound[i].data = last.block.bytes
              /\ outbound[i].to \in DOMAIN peer_book.connected_peers
              /\ outbound[i].to # last.address
        /\ Len(outbound) =
              Cardinality(DOMAIN peer_book.connected_peers \ {last.address})

\* C17: an accepted gossiped block from a connected peer has been propagated to
\* another connected peer.
C17_Witness ==
    /\ last.op = "received_block" /\ last.gossiped
    /\ last.result = "Ok" /\ last.block.accepted /\ ~last.syncing
    /\ is_connected(peer_book, last.address)
    /\ Len(outbound) >= 1

\* C18: received_block sends no Block message for a gossiped block that
\* consensus rejected or that arrived while some peer is syncing blocks.
C18_NoPropagation ==
    (/\ last.op = "received_block" /\ last.gossiped
     /\ (~last.block.accepted \/ last.syncing)) =>
        BlockMessages = << >>

\* C18: a block that consensus accepts has been gossiped to a node with
\* another connected peer while a peer is syncing blocks.
C18_Witness ==
    /\ last.op = "received_block" /\ last.gossiped
    /\ last.result = "Ok" /\ last.block.accepted /\ last.syncing
    /\ DOMAIN peer_book.connected_peers \ {last.address} # {}

\* min(a, b)
Min(a, b) == IF a <= b THEN a ELSE b

\* C19: answering GetSync with the latest shared hash at height h and the local
\* chain at height H, received_get_sync sends the requester one Sync: empty if
\* h >= H, and else the hashes of the canonical chain at the heights h + 1, ...,
\* min(H, h + MAX_BLOCK_SYNC_COUNT) in this order, so at most
\* MAX_BLOCK_SYNC_COUNT hashes and never the shared hash.
C19_SyncReply ==
    (/\ last.op = "received_get_sync" /\ last.result = "Ok"
     /\ last.arg.shared_height # NoHeight) =>
        LET h == last.arg.shared_height
            H == last.arg.current_height
            top == Min(H, h + MAX_BLOCK_SYNC_COUNT)
        IN  /\ Len(outbound) = 1
            /\ outbound[1].to = last.address
            /\ outbound[1].payload = "Sync"
            /\ h >= H => outbound[1].data = << >>
            /\ h < H =>
                  /\ Len(outbound[1].data) = top - h
                  /\ \A i \in 1..(top - h) :
                        outbound[1].data[i] = get_block_hash(last.arg, h + i)
            /\ Len(outbound[1].data) <= MAX_BLOCK_SYNC_COUNT
            /\ \A i \in 1..Len(outbound[1].data) :
                  outbound[1].data[i] # get_block_hash(last.arg, h)

\* C19: a requester more than MAX_BLOCK_SYNC_COUNT blocks behind has been
\* answered.
C19_Witness ==
    /\ last.op = "received_get_sync" /\ last.result = "Ok"
    /\ last.arg.shared_height # NoHeight
    /\ last.arg.current_height
          > last.arg.shared_height + MAX_BLOCK_SYNC_COUNT
    /\ Len(outbound) = 1

\* The concatenation of the hash lists of a sequence of messages.
RECURSIVE Requested(_)
Requested(messages) ==
    IF messages = << >> THEN << >>
    ELSE Head(messages).data \o Requested(Tail(messages))

\* C20: for a Sync of n > 0 hashes from peer p, received_sync sends p
\* ceil(n / MAX_BLOCK_SYNC_COUNT) GetBlocks messages of 1 to
\* MAX_BLOCK_SYNC_COUNT hashes each, which together are the announced hashes in
\* their order; for an empty Sync it sends nothing.
C20_GetBlocksChunks ==
    last.op = "received_sync" =>
        LET n == Len(last.arg)
        IN  /\ n = 0 => outbound = << >>
            /\ n > 0 =>
                  /\ Len(outbound) =
                        (n + MAX_BLOCK_SYNC_COUNT - 1) \div MAX_BLOCK_SYNC_COUNT
                  /\ \A i \in 1..Len(outbound) :
                        /\ outbound[i].to = last.address
                        /\ outbound[i].payload = "GetBlocks"
                        /\ Len(outbound[i].data) >= 1
                        /\ Len(outbound[i].data) <= MAX_BLOCK_SYNC_COUNT
                  /\ Requested(outbound) = last.arg

\* C20: a Sync of more than two full batches and a remainder has been answered
\* with three GetBlocks.
C20_Witness ==
    /\ last.op = "received_sync"
    /\ Len(last.arg) > 2 * MAX_BLOCK_SYNC_COUNT
    /\ Len(last.arg) % MAX_BLOCK_SYNC_COUNT # 0
    /\ Len(outbound) = 3

\* C21 as stated: after a Sync, no GetBlocks message the node sends holds the
\* hash of a block that the storage has already.
C21_StoredNotRequested ==
    last.op = "received_sync" =>
        \A i \in 1..Len(outbound) :
            \A j \in 1..Len(outbound[i].data) :
                ~block_hash_exists(last.storage, outbound[i].data[j])

\* C23: for a GetBlocks from peer p whose hashes are all stored,
\* received_get_blocks sends p one SyncBlock for each requested hash, in the
\* order of the request, whose bytes deserialize to the block stored under the
\* hash; it sends nothing else and returns Ok.
C23_SyncBlockPerHash ==
    (/\ last.op = "received_get_blocks"
     /\ \A i \in 1..Len(last.hashes) :
           block_hash_exists(last.storage, last.hashes[i])) =>
        /\ last.result = "Ok"
        /\ Len(outbound) = Len(last.hashes)
        /\ \A i \in 1..Len(outbound) :
              /\ outbound[i].to = last.address
              /\ outbound[i].payload = "SyncBlock"
              /\ Block_deserialize(outbound[i].data)
                    = get_block(last.storage, last.hashes[i])

\* C23: a GetBlocks for two different stored blocks has been answered.
C23_Witness ==
    /\ last.op = "received_get_blocks"
    /\ Len(last.hashes) >= 2
    /\ last.hashes[1] # last.hashes[2]
    /\ \A i \in 1..Len(last.hashes) :
          block_hash_exists(last.storage, last.hashes[i])
    /\ Len(outbound) = Len(last.hashes)

\* The number of block hashes in the GetBlocks messages of the last call.
RequestedCount ==
    Cardinality(UNION {{<<i, j>> : j \in 1..Len(outbound[i].data)} :
                          i \in {k \in 1..Len(outbound) :
                                    outbound[k].payload = "GetBlocks"}})

\* C22 as stated: when the node has processed a Sync from a connected peer p,
\* p's remaining_sync_blocks is the number of block hashes requested from p
\* with GetBlocks, so p is syncing blocks exactly if a hash was requested.
C22_CounterIsRequested ==
    \A a \in Address :
        (last.op = "Sync" /\ last.address = a /\ is_connected(peer_book, a)) =>
            /\ peer_quality(peer_book, a).remaining_sync_blocks = RequestedCount
            /\ is_syncing_blocks(peer_book, a) <=> (RequestedCount > 0)

\* C24: when consensus receive_block rejects a block, received_block returns
\* Ok, leaves the peer book as it was, and sends no message.
C24_RejectedBlockDropped ==
    (last.op = "received_block" /\ last.verified /\ ~last.block.accepted) =>
        /\ last.result = "Ok"
        /\ peer_book = prev
        /\ outbound = << >>

\* C24: consensus has rejected a gossiped block while the node was not syncing
\* and had another connected peer.
C24_Witness ==
    /\ last.op = "received_block" /\ last.gossiped
    /\ last.verified /\ ~last.block.accepted /\ ~last.syncing
    /\ DOMAIN peer_book.connected_peers \ {last.address} # {}

\* C25: a block longer than max_block_size is turned away with BlockTooLarge
\* before Block::deserialize and consensus receive_block are called, so the
\* storage and the memory pool stay as they were, and no message is sent; a
\* block of exactly max_block_size bytes is not turned away for its length.
C25_BlockTooLarge ==
    last.op = "received_block" =>
        /\ last.block.size > max_block_size =>
              /\ last.result = "BlockTooLarge"
              /\ ~last.deserialized
              /\ ~last.verified
              /\ outbound = << >>
        /\ last.block.size = max_block_size =>
              /\ last.result # "BlockTooLarge"
              /\ last.deserialized

\* C25: a block that is too long, and that consensus would accept, has been
\* gossiped while the node was not syncing and had another connected peer.
C25_Witness ==
    /\ last.op = "received_block" /\ last.gossiped
    /\ last.block.size > max_block_size
    /\ last.block.well_formed /\ last.block.accepted /\ ~last.syncing
    /\ DOMAIN peer_book.connected_peers \ {last.address} # {}

\* C26 as stated: the is_syncing that get_node_info reports is true exactly
\* when some peer's remaining_sync_blocks is above 0.
C26_IsSyncingReported ==
    (last.op = "get_node_info" /\ last.result.ok) =>
        (last.result.is_syncing
            <=> \E a \in DOMAIN peer_book.connected_peers :
                   peer_quality(peer_book, a).remaining_sync_blocks > 0)

\* C27 as stated: when send_raw_transaction returns the transaction id, the
\* memory pool has stored the transaction and a Transaction message has been
\* sent to every connected peer; a transaction that does not verify or that
\* conflicts with the ledger is not inserted.
C27_StoredAndPropagated ==
    last.op = "send_raw_transaction" =>
        /\ last.result = "transaction_hex_id" =>
              /\ last.inserted
              /\ \A a \in DOMAIN peer_book.connected_peers :
                    \E i \in 1..Len(outbound) :
                        outbound[i].to = a /\ outbound[i].payload = "Transaction"
        /\ (last.transaction.verify # "true" \/ last.transaction.conflicts) =>
              ~last.inserted

\* C28 as stated: expecting_sync_blocks(addr, n) on a connected peer sets the
\* peer's remaining_sync_blocks to n, for every count n, so the peer is syncing
\* blocks afterwards exactly if n is not 0.
C28_CounterIsCount ==
    (last.op = "expecting_sync_blocks" /\ is_connected(prev, last.address)) =>
        /\ peer_quality(peer_book, last.address).remaining_sync_blocks = last.arg
        /\ is_syncing_blocks(peer_book, last.address) <=> (last.arg # 0)

\* C29 as stated: got_sync_block on a connected peer never increases the
\* peer's remaining_sync_blocks, and leaves a peer whose counter is 0 not
\* syncing blocks.
C29_CounterNeverIncreases ==
    (last.op = "got_sync_block" /\ is_connected(prev, last.address)) =>
        /\ peer_quality(peer_book, last.address).remaining_sync_blocks
              <= peer_quality(prev, last.address).remaining_sync_blocks
        /\ ~is_syncing_blocks(prev, last.address) =>
              ~is_syncing_blocks(peer_book, last.address)

\* The tasks that make a call, those that have returned, and those that have
\* returned true.
Called == {t \in Task : tasks.calls[t].pc # "idle"}

Returned == {t \in Called : tasks.calls[t].pc = "done"}

ReturnedTrue == {t \in Returned : tasks.calls[t].result}

\* C30: while the tasks make their count calls of got_sync_block for a
\* connected peer after expecting_sync_blocks(addr, count), in any
\* interleaving, no decrement is lost and at most one call has returned true;
\* when all have returned, exactly one has returned true and the counter is 0.
C30_AtomicDecrement ==
    (tasks.addr # None /\ is_connected(peer_book, tasks.addr)) =>
        /\ peer_quality(peer_book, tasks.addr).remaining_sync_blocks
              = tasks.count - Cardinality(Returned)
        /\ Cardinality(ReturnedTrue) <= 1
        /\ Returned = Called =>
              /\ Cardinality(ReturnedTrue) = 1
              /\ peer_quality(peer_book, tasks.addr).remaining_sync_blocks = 0
        /\ \A t \in ReturnedTrue :
              last.op = "got_sync_block" /\ last.arg = t =>
                 peer_quality(prev, tasks.addr).remaining_sync_blocks = 1

\* C30: three or more concurrent calls for a connected peer have all
\* returned.
C30_Witness ==
    /\ tasks.addr # None /\ is_connected(peer_book, tasks.addr)
    /\ tasks.count >= 3
    /\ Returned = Called
    /\ Cardinality(ReturnedTrue) = 1

\* Whether a storage read that received_get_sync makes fails:
\* get_latest_shared_hash, or get_block_hash, which is called only for a
\* shared hash with a block number below the current height.
ReadFails(storage) ==
    \/ ~storage.shared_found
    \/ /\ ~storage.hashes_found
       /\ storage.shared_height # NoHeight
       /\ storage.shared_height < storage.current_height

\* C32: received_get_sync returns Ok and sends one message, a Sync to the
\* requester, when its storage reads succeed, an empty Sync if the shared hash
\* has no block number; when a read fails it returns an error and sends
\* nothing.
C32_OneSyncOrError ==
    last.op = "received_get_sync" =>
        /\ ~ReadFails(last.arg) =>
              /\ last.result = "Ok"
              /\ Len(outbound) = 1
              /\ outbound[1].to = last.address
              /\ outbound[1].payload = "Sync"
              /\ last.arg.shared_height = NoHeight => outbound[1].data = << >>
        /\ ReadFails(last.arg) =>
              /\ last.result = "Err"
              /\ outbound = << >>

\* C32: get_block_hash has failed for a requester that is behind.
C32_Witness ==
    /\ last.op = "received_get_sync"
    /\ last.arg.shared_found /\ ~last.arg.hashes_found
    /\ last.arg.shared_height # NoHeight
    /\ last.arg.shared_height + 1 < last.arg.current_height
    /\ last.result = "Err"

\* C33: received_get_blocks sends a SyncBlock for each requested hash up to the
\* first one the storage cannot load, and nothing for that hash or a later
\* one; it returns an error exactly if there is such a hash.
C33_LoadablePrefix ==
    last.op = "received_get_blocks" =>
        LET sent == Len(outbound)
        IN  /\ sent <= Len(last.hashes)
            /\ \A i \in 1..sent :
                  /\ block_hash_exists(last.storage, last.hashes[i])
                  /\ outbound[i] = Message(last.address, "SyncBlock",
                        Block_serialize(get_block(last.storage, last.hashes[i])))
            /\ sent < Len(last.hashes) =>
                  /\ ~block_hash_exists(last.storage, last.hashes[sent + 1])
                  /\ last.result = "Err"
            /\ sent = Len(last.hashes) => last.result = "Ok"

\* C33: a request has been cut short at a hash that is not stored, after one
\* block was sent and before a hash that is stored.
C33_Witness ==
    /\ last.op = "received_get_blocks"
    /\ Len(last.hashes) = 3
    /\ Len(outbound) = 1
    /\ block_hash_exists(last.storage, last.hashes[3])
    /\ last.result = "Err"

\* C34: no address has a PeerInfo in the connected map and in the disconnected
\* map, a successful set_disconnected of a connected peer lowers
\* number_of_connected_peers by one, and a successful set_connected of a peer
\* that was not connected raises it by one.
C34_DisjointAndCounted ==
    /\ DOMAIN peer_book.connected_peers \cap DOMAIN peer_book.disconnected_peers = {}
    /\ (/\ last.op = "set_disconnected"
        /\ last.result = "Ok"
        /\ is_connected(prev, last.address)) =>
            number_of_connected_peers(peer_book) =
                number_of_connected_peers(prev) - 1
    /\ (/\ last.op = "set_connected"
        /\ last.result = "Ok"
        /\ ~is_connected(prev, EffectiveListener)) =>
            number_of_connected_peers(peer_book) =
                number_of_connected_peers(prev) + 1

\* C35: every PeerInfo in the connected map has status Connected, every
\* PeerInfo in the disconnected map has status NeverConnected or Disconnected,
\* and no set_connected or set_disconnected call returns an error.
C35_StatusMatchesMap ==
    /\ \A a \in DOMAIN peer_book.connected_peers :
          peer_book.connected_peers[a].status = "Connected"
    /\ \A a \in DOMAIN peer_book.disconnected_peers :
          peer_book.disconnected_peers[a].status \in {"NeverConnected", "Disconnected"}
    /\ last.op \in {"set_connected", "set_disconnected"} => last.result = "Ok"

\* C35: a peer that had been connected and disconnected has been connected
\* again, its PeerInfo taken from the disconnected map.
C35_Witness ==
    /\ last.op = "set_connected"
    /\ last.result = "Ok"
    /\ is_disconnected(prev, EffectiveListener)
    /\ prev.disconnected_peers[EffectiveListener].status = "Disconnected"
    /\ is_connected(peer_book, EffectiveListener)

\* The address of the last call is not in the connected map before the call.
NotConnectedBefore == ~is_connected(prev, last.address)

\* C37: for an address that is not in the connected map, sending_ping,
\* received_pong and expecting_sync_blocks change nothing, is_syncing_blocks
\* returns false, and got_sync_block returns true and changes nothing.
C37_QualityFrame ==
    /\ (/\ last.op \in {"sending_ping", "received_pong", "expecting_sync_blocks"}
        /\ NotConnectedBefore) => peer_book = prev
    /\ (last.op = "is_syncing_blocks" /\ NotConnectedBefore) =>
            last.result = FALSE
    /\ (last.op = "got_sync_block" /\ NotConnectedBefore) =>
            /\ last.result = TRUE
            /\ peer_book = prev

\* C37: got_sync_block has been called for a disconnected address while a
\* connected peer was syncing.
C37_Witness ==
    /\ last.op = "got_sync_block"
    /\ is_disconnected(prev, last.address)
    /\ \E a \in Address : is_syncing_blocks(prev, a)

\* C36: in every interleaving of sending_ping and received_pong calls, a
\* quality block whose expecting_pong is set has its last_ping_sent set, and no
\* received_pong call panics at the unwrap of last_ping_sent.
C36_ExpectingPongHasTimestamp ==
    /\ \A a \in DOMAIN peer_book.connected_peers :
          peer_quality(peer_book, a).expecting_pong =>
              peer_quality(peer_book, a).last_ping_sent # None
    /\ \A t \in PingTask : tasks.calls[t].pc # "panicked"

\* C36: a received_pong call has unwrapped last_ping_sent while a sending_ping
\* call has written the timestamp and not yet stored the flag.
C36_Witness ==
    \E t, u \in PingTask :
        /\ tasks.calls[t].pc = "pong_unwrapped"
        /\ tasks.calls[u].pc = "ping_stamped"

\* C31: a handler of received_block holds the memory-pool lock only inside the
\* statement that calls consensus receive_block: no handler that is sending in
\* propagate_block, or is anywhere else in received_block, holds it.
C31_LockOnlyInReceiveBlock ==
    \A t \in Handler :
        tasks.memory_pool = t => tasks.calls[t].pc = "locked"

\* C31: one handler holds the memory-pool lock while another handler is in the
\* middle of a broadcast.
C31_Witness ==
    \E t, u \in Handler :
        /\ tasks.calls[t].pc = "sending"
        /\ tasks.memory_pool = u
        /\ tasks.calls[u].pc = "locked"

====
